---- MODULE Spec2Model ----
(***************************************************************************)
(* A model of the conversion core of adk-llm-bridge: the streaming         *)
(* accumulators of the OpenAI-compatible dialect (convertStreamChunk) and  *)
(* of the Anthropic dialect (convertAnthropicStreamEvent), the single-shot *)
(* convertResponse, and convertRequest's turn conversion.                  *)
(*                                                                         *)
(* JavaScript values are modelled as follows.  A string is a sequence of   *)
(* one-character strings, so that += is \o and "" is <<>>.  An optional    *)
(* value (a field that may be undefined or null) is None or Some(v).  An   *)
(* object literal is a record holding exactly the keys the code writes.    *)
(* A Map is the sequence of its entries in insertion order.                *)
(***************************************************************************)
EXTENDS Integers, Sequences, FiniteSets, TLC

VARIABLES
  dialect,   \* which component this behaviour exercises
  acc,       \* the stream accumulator (StreamAccumulator / AnthropicStreamAccumulator)
  result,    \* None before the first call, then Some(value the last call returned)
  lastFinish,\* whether the fragment of the last call was terminal (a chunk with a
             \* non-null finish_reason, a message_stop event)
  emitted,   \* history: the texts of the turn's partial responses, concatenated
  fed,       \* history: per index, the name / arguments fragments of the turn's
             \* chunks that carried no text content, concatenated (dialect A);
             \* the tool_use blocks started and their partial_json (dialect B)
             \* (for the register modules: the register calls each module has
             \* received since its last reset)
  input,     \* the argument of a single-shot conversion (a response or a request);
             \* of a stream, what the last chunk carried (its non-empty content
             \* and its tool-call fragments) or the last event's type
  clock,     \* the readings Date.now() returned during a request conversion
  inflight,  \* the generateContentAsync calls in flight, each with its position,
             \* its own accumulator, the chunks it pulled and the items it yielded
  registration \* the provider register modules: each module's registered flag, the
             \* provider configs, the console warnings and the LLMRegistry

vars == <<dialect, acc, result, lastFinish, emitted, fed, input, clock, inflight,
          registration>>

----------------------------------------------------------------------------
(* Optional values and strings *)

None == <<>>
Some(v) == <<v>>
IsSome(o) == Len(o) = 1
Get(o) == o[1]

\* JavaScript truthiness of an optional string: undefined, null and "" are falsy.
Truthy(o) == IsSome(o) /\ Len(Get(o)) > 0


RECURSIVE SumLen(_)
SumLen(ss) == IF ss = <<>> THEN 0 ELSE Len(Head(ss)) + SumLen(Tail(ss))

----------------------------------------------------------------------------
(* JSON.  The text of a JSON document is a string over the tokens "{", "}",*)
(* ",", the digit "1" and the member tokens of Members (a member token     *)
(* stands for a complete "key":value pair).  A document is an object,      *)
(* "{" member ("," member)* "}" or "{}", or a number, one or more digits.  *)
(* The parsed value of an object is [obj |-> its keys in first-insertion   *)
(* order], that of a number [num |-> its digits].                          *)

Members == {"k", "j"}

EmptyObject == [obj |-> <<>>]

\* The tokens strictly between the braces.
Inner(str) == SubSeq(str, 2, Len(str) - 1)

\* member ("," member)*, or nothing
IsMemberList(ts) ==
  \/ ts = <<>>
  \/ /\ Len(ts) % 2 = 1
     /\ \A i \in 1..Len(ts) : IF i % 2 = 1 THEN ts[i] \in Members ELSE ts[i] = ","

IsJsonObject(str) ==
  /\ Len(str) >= 2
  /\ str[1] = "{"
  /\ str[Len(str)] = "}"
  /\ IsMemberList(Inner(str))

IsJsonNumber(str) == Len(str) >= 1 /\ \A i \in 1..Len(str) : str[i] = "1"

IsValidJson(str) == IsJsonObject(str) \/ IsJsonNumber(str)

\* The keys of a member list; a repeated key keeps its first position.
RECURSIVE KeysOf(_, _)
KeysOf(ts, seen) ==
  IF ts = <<>> THEN seen
  ELSE LET t == Head(ts)
       IN  IF t \in Members /\ ~(\E i \in 1..Len(seen) : seen[i] = t)
           THEN KeysOf(Tail(ts), Append(seen, t))
           ELSE KeysOf(Tail(ts), seen)

\* JSON.parse of a valid document
JsonParse(str) ==
  IF IsJsonNumber(str) THEN [num |-> str] ELSE [obj |-> KeysOf(Inner(str), <<>>)]


SafeJsonParse_Throws(str) == IF IsValidJson(str) THEN JsonParse(str) ELSE [threw |-> str]

SafeJsonParse(str) == IF IsValidJson(str) THEN JsonParse(str) ELSE EmptyObject

----------------------------------------------------------------------------
(* Map<number, V>: entries in insertion order *)

MapHas(m, k) == \E i \in 1..Len(m) : m[i].k = k

MapGet(m, k) == m[CHOOSE i \in 1..Len(m) : m[i].k = k].v

\* a map that keeps its entries in ascending key order
MapSet_KeyOrder(m, k, v) ==
  IF MapHas(m, k)
  THEN [i \in 1..Len(m) |-> IF m[i].k = k THEN [k |-> k, v |-> v] ELSE m[i]]
  ELSE LET below == SelectSeq(m, LAMBDA e : e.k < k)
           above == SelectSeq(m, LAMBDA e : e.k > k)
       IN  below \o <<[k |-> k, v |-> v]>> \o above

\* Map.prototype.set: an existing key keeps its position.
MapSet(m, k, v) ==
  IF MapHas(m, k)
  THEN [i \in 1..Len(m) |-> IF m[i].k = k THEN [k |-> k, v |-> v] ELSE m[i]]
  ELSE Append(m, [k |-> k, v |-> v])

MapValues(m) == [i \in 1..Len(m) |-> m[i].v]

----------------------------------------------------------------------------
(* Responses *)

TextPart(s) == [text |-> s]

FunctionCallPart(id, name, args) ==
  [functionCall |-> [id |-> id, name |-> name, args |-> args]]

IsTextPart(p) == "text" \in DOMAIN p
IsCallPart(p) == "functionCall" \in DOMAIN p

\* parts.length ? { role: "model", parts } : undefined
ContentOf(parts) ==
  IF Len(parts) > 0 THEN Some([role |-> "model", parts |-> parts]) ELSE None

\* the partial response of a text fragment
PartialResponse(frag) ==
  [content |-> Some([role |-> "model", parts |-> <<TextPart(frag)>>]),
   partial |-> TRUE]

\* the final response of a stream
FinalResponse(parts) == [content |-> ContentOf(parts), turnComplete |-> TRUE]

----------------------------------------------------------------------------
(* Dialect A: convertStreamChunk *)

CreateStreamAccumulator == [text |-> <<>>, toolCalls |-> <<>>]

NewToolCall == [id |-> <<>>, name |-> <<>>, arguments |-> <<>>]

\* One iteration of the loop over delta.tool_calls.
ApplyFragment_Prepend(toolCalls, tc) ==
  LET idx == IF IsSome(tc.index) THEN Get(tc.index) ELSE 0
      m1  == IF MapHas(toolCalls, idx) THEN toolCalls
             ELSE MapSet(toolCalls, idx, NewToolCall)
      a0  == MapGet(m1, idx)
      a1  == IF Truthy(tc.id) THEN [a0 EXCEPT !.id = Get(tc.id)] ELSE a0
      a2  == IF IsSome(tc.function) /\ Truthy(Get(tc.function).name)
             THEN [a1 EXCEPT !.name = Get(Get(tc.function).name) \o @] ELSE a1
      a3  == IF IsSome(tc.function) /\ Truthy(Get(tc.function).arguments)
             THEN [a2 EXCEPT !.arguments = Get(Get(tc.function).arguments) \o @] ELSE a2
  IN  MapSet(m1, idx, a3)

\* an iteration that keeps the id a slot already has
ApplyFragment_KeepsFirstId(toolCalls, tc) ==
  LET idx == IF IsSome(tc.index) THEN Get(tc.index) ELSE 0
      m1  == IF MapHas(toolCalls, idx) THEN toolCalls
             ELSE MapSet(toolCalls, idx, NewToolCall)
      a0  == MapGet(m1, idx)
      a1  == IF Truthy(tc.id) /\ a0.id = <<>> THEN [a0 EXCEPT !.id = Get(tc.id)] ELSE a0
      a2  == IF IsSome(tc.function) /\ Truthy(Get(tc.function).name)
             THEN [a1 EXCEPT !.name = @ \o Get(Get(tc.function).name)] ELSE a1
      a3  == IF IsSome(tc.function) /\ Truthy(Get(tc.function).arguments)
             THEN [a2 EXCEPT !.arguments = @ \o Get(Get(tc.function).arguments)] ELSE a2
  IN  MapSet(m1, idx, a3)

ApplyFragment(toolCalls, tc) ==
  LET idx == IF IsSome(tc.index) THEN Get(tc.index) ELSE 0
      m1  == IF MapHas(toolCalls, idx) THEN toolCalls
             ELSE MapSet(toolCalls, idx, NewToolCall)
      a0  == MapGet(m1, idx)
      a1  == IF Truthy(tc.id) THEN [a0 EXCEPT !.id = Get(tc.id)] ELSE a0
      a2  == IF IsSome(tc.function) /\ Truthy(Get(tc.function).name)
             THEN [a1 EXCEPT !.name = @ \o Get(Get(tc.function).name)] ELSE a1
      a3  == IF IsSome(tc.function) /\ Truthy(Get(tc.function).arguments)
             THEN [a2 EXCEPT !.arguments = @ \o Get(Get(tc.function).arguments)] ELSE a2
  IN  MapSet(m1, idx, a3)

\* for (const tc of delta.tool_calls) { ... }
RECURSIVE ApplyFragments(_, _)
ApplyFragments(toolCalls, tcs) ==
  IF tcs = <<>> THEN toolCalls
  ELSE ApplyFragments(ApplyFragment(toolCalls, Head(tcs)), Tail(tcs))

\* One functionCall part per slot with a non-empty name, in Map order.
RECURSIVE CallParts(_)
CallParts(slots) ==
  IF slots = <<>> THEN <<>>
  ELSE LET tc == Head(slots)
       IN  (IF Len(tc.name) > 0
            THEN <<FunctionCallPart(tc.id, tc.name, SafeJsonParse(tc.arguments))>>
            ELSE <<>>) \o CallParts(Tail(slots))

FinalParts(text, slots) ==
  (IF Len(text) > 0 THEN <<TextPart(text)>> ELSE <<>>) \o CallParts(slots)

\* if (delta?.content) { ... }
TextBranch_Cumulative(content, a) ==
  [acc    |-> [a EXCEPT !.text = @ \o content],
   result |-> [response |-> PartialResponse(a.text \o content), isComplete |-> FALSE]]

TextBranch_NoAppend(content, a) ==
  [acc    |-> a,
   result |-> [response |-> PartialResponse(content), isComplete |-> FALSE]]

TextBranch(content, a) ==
  [acc    |-> [a EXCEPT !.text = @ \o content],
   result |-> [response |-> PartialResponse(content), isComplete |-> FALSE]]

\* if (choice.finish_reason) { ... }
FinishBranch(a) ==
  [acc    |-> [a EXCEPT !.text = <<>>, !.toolCalls = <<>>],
   result |-> [response |-> FinalResponse(FinalParts(a.text, MapValues(a.toolCalls))),
               isComplete |-> TRUE]]

\* a fall-through that forgets the accumulated text
NotComplete_ClearsText(a) ==
  [acc |-> [a EXCEPT !.text = <<>>], result |-> [isComplete |-> FALSE]]

NotComplete(a) == [acc |-> a, result |-> [isComplete |-> FALSE]]

\* a conversion that applies the chunk's fragments before looking at its text
ConvertStreamChunk_FragmentsFirst(chunk, a) ==
  IF Len(chunk.choices) = 0 THEN NotComplete(a)
  ELSE
    LET choice == chunk.choices[1]
        delta  == choice.delta
        a1 == IF IsSome(delta) /\ IsSome(Get(delta).tool_calls)
              THEN [a EXCEPT !.toolCalls =
                               ApplyFragments(@, Get(Get(delta).tool_calls))]
              ELSE a
    IN  IF IsSome(delta) /\ Truthy(Get(delta).content)
        THEN TextBranch(Get(Get(delta).content), a1)
        ELSE IF IsSome(choice.finish_reason) /\ Get(choice.finish_reason) # ""
             THEN FinishBranch(a1)
             ELSE NotComplete(a1)

ConvertStreamChunk(chunk, a) ==
  IF Len(chunk.choices) = 0 THEN NotComplete(a)
  ELSE
    LET choice == chunk.choices[1]
        delta  == choice.delta
    IN  IF IsSome(delta) /\ Truthy(Get(delta).content)
        THEN TextBranch(Get(Get(delta).content), a)
        ELSE
          LET a1 == IF IsSome(delta) /\ IsSome(Get(delta).tool_calls)
                    THEN [a EXCEPT !.toolCalls =
                                     ApplyFragments(@, Get(Get(delta).tool_calls))]
                    ELSE a
          IN  IF IsSome(choice.finish_reason) /\ Get(choice.finish_reason) # ""
              THEN FinishBranch(a1)
              ELSE NotComplete(a1)

----------------------------------------------------------------------------
(* Dialect B: convertAnthropicStreamEvent *)

CreateAnthropicStreamAccumulator ==
  [text |-> <<>>, toolUses |-> <<>>, currentBlockIndex |-> -1]

\* case "content_block_start"
BlockStart(event, a) ==
  LET a1 == [a EXCEPT !.currentBlockIndex = event.index]
  IN  IF event.content_block.type = "tool_use"
      THEN [acc    |-> [a1 EXCEPT !.toolUses =
                          MapSet(@, event.index,
                                 [id    |-> event.content_block.id,
                                  name  |-> event.content_block.name,
                                  input |-> <<>>])],
            result |-> [isComplete |-> FALSE]]
      ELSE NotComplete(a1)

\* case "content_block_delta"
BlockDelta_Overwrites(event, a) ==
  LET delta == event.delta
  IN  IF delta.type = "text_delta"
      THEN [acc    |-> [a EXCEPT !.text = @ \o delta.text],
            result |-> [response |-> PartialResponse(delta.text), isComplete |-> FALSE]]
      ELSE IF delta.type = "input_json_delta" /\ MapHas(a.toolUses, event.index)
      THEN LET toolUse == MapGet(a.toolUses, event.index)
           IN  NotComplete([a EXCEPT !.toolUses =
                              MapSet(@, event.index,
                                     [toolUse EXCEPT !.input = delta.partial_json])])
      ELSE NotComplete(a)

BlockDelta(event, a) ==
  LET delta == event.delta
  IN  IF delta.type = "text_delta"
      THEN [acc    |-> [a EXCEPT !.text = @ \o delta.text],
            result |-> [response |-> PartialResponse(delta.text), isComplete |-> FALSE]]
      ELSE IF delta.type = "input_json_delta" /\ MapHas(a.toolUses, event.index)
      THEN LET toolUse == MapGet(a.toolUses, event.index)
           IN  NotComplete([a EXCEPT !.toolUses =
                              MapSet(@, event.index,
                                     [toolUse EXCEPT !.input = @ \o delta.partial_json])])
      ELSE NotComplete(a)

\* safeJsonParse of the Anthropic converter
AnthropicSafeJsonParse(str) ==
  IF IsValidJson(str) THEN JsonParse(str) ELSE EmptyObject

\* for (const toolUse of acc.toolUses.values()) if (toolUse.name) parts.push(...)
RECURSIVE ToolUseParts(_)
ToolUseParts(uses) ==
  IF uses = <<>> THEN <<>>
  ELSE LET toolUse == Head(uses)
       IN  (IF Len(toolUse.name) > 0
            THEN <<FunctionCallPart(toolUse.id, toolUse.name,
                                    AnthropicSafeJsonParse(toolUse.input))>>
            ELSE <<>>) \o ToolUseParts(Tail(uses))

\* the parts message_stop assembles
MessageStopParts(a) ==
  (IF Len(a.text) > 0 THEN <<TextPart(a.text)>> ELSE <<>>)
  \o ToolUseParts(MapValues(a.toolUses))

\* case "message_stop"
MessageStop_KeepsBlockIndex(a) ==
  [acc    |-> [a EXCEPT !.text = <<>>, !.toolUses = <<>>],
   result |-> [response |-> FinalResponse(MessageStopParts(a)),
               isComplete |-> TRUE]]

MessageStop(a) ==
  [acc    |-> [a EXCEPT !.text = <<>>, !.toolUses = <<>>, !.currentBlockIndex = -1],
   result |-> [response |-> FinalResponse(MessageStopParts(a)),
               isComplete |-> TRUE]]

ConvertAnthropicStreamEvent(event, a) ==
  CASE event.type = "content_block_start" -> BlockStart(event, a)
    [] event.type = "content_block_delta" -> BlockDelta(event, a)
    [] event.type = "message_stop"        -> MessageStop(a)
    [] OTHER                              -> NotComplete(a)

----------------------------------------------------------------------------
(* The fragments the vendor may send *)

\* Bound: the characters an accumulator may hold between two calls: its text
\* and what the vendor's fragments added to its slots.
MaxAcc == 2

Indexes   == {0, 1}
Ids       == {<<"x">>, <<"y">>}
TextFrags == {<<"a">>, <<"b">>}
NameFrags == {<<"f">>, <<"g">>}
ArgFrags  == {<<"{">>, <<"}">>, <<"1">>}

OptIndexes == {None} \cup {Some(i) : i \in Indexes}

Frag(index, id, name, arguments) ==
  [index |-> index, id |-> id,
   function |-> Some([name |-> name, arguments |-> arguments])]

\* Tool-call fragments: one field each, the vendor's opening fragment (id, name
\* and empty arguments), a fragment without a function object, and fragments
\* without an index.
ToolFrags ==
  UNION { {Frag(Some(i), Some(id), None, None) : id \in Ids}
          \cup {Frag(Some(i), None, Some(n), None) : n \in NameFrags}
          \cup {Frag(Some(i), None, None, Some(g)) : g \in ArgFrags}
          \cup {Frag(Some(i), Some(<<"x">>), Some(<<"f">>), Some(<<>>)),
                [index |-> Some(i), id |-> None, function |-> None]}
        : i \in Indexes }
  \cup {Frag(None, Some(<<"y">>), Some(<<"g">>), None),
        Frag(None, None, None, Some(<<"1">>))}

PairFrags ==
  {Frag(Some(0), None, Some(<<"f">>), None),
   Frag(None, None, Some(<<"g">>), None),
   Frag(Some(1), None, Some(<<"g">>), Some(<<"{">>))}

FragLists ==
  {<<>>} \cup {<<tc>> : tc \in ToolFrags} \cup {<<p, q>> : p, q \in PairFrags}

\* the fragment lists of chunks that also carry text or a finish reason
BothLists == {<<>>} \cup {<<p>> : p \in PairFrags}

FinishReasons == {None, Some("stop")}

Chunk(content, tool_calls, finish_reason) ==
  [choices |-> <<[delta |-> Some([content |-> content, tool_calls |-> tool_calls]),
                  finish_reason |-> finish_reason]>>]

Chunks ==
  {[choices |-> <<>>]}
  \cup {[choices |-> <<[delta |-> None, finish_reason |-> fr]>>] : fr \in FinishReasons}
  \cup {Chunk(c, None, fr) :
          c \in {None, Some(<<>>)} \cup {Some(t) : t \in TextFrags}, fr \in FinishReasons}
  \cup {Chunk(None, Some(tcs), None) : tcs \in FragLists}
  \cup {Chunk(c, Some(tcs), fr) :
          c \in {None, Some(<<>>), Some(<<"a">>)}, tcs \in BothLists,
          fr \in FinishReasons}

ContentBlocks ==
  {[type |-> "text", text |-> <<>>],
   [type |-> "tool_use", id |-> <<"x">>, name |-> <<"f">>, input |-> EmptyObject],
   [type |-> "tool_use", id |-> <<"y">>, name |-> <<"g">>, input |-> EmptyObject],
   [type |-> "tool_use", id |-> <<"x">>, name |-> <<>>, input |-> EmptyObject]}

Deltas ==
  {[type |-> "text_delta", text |-> t] : t \in {<<>>} \cup TextFrags}
  \cup {[type |-> "input_json_delta", partial_json |-> g] : g \in {<<>>} \cup ArgFrags}
  \cup {[type |-> "thinking_delta"]}

Events ==
  {[type |-> "content_block_start", index |-> i, content_block |-> b] :
     i \in Indexes, b \in ContentBlocks}
  \cup {[type |-> "content_block_delta", index |-> i, delta |-> d] :
          i \in Indexes, d \in Deltas}
  \cup {[type |-> "content_block_stop", index |-> i] : i \in Indexes}
  \cup {[type |-> t] : t \in {"message_start", "message_delta", "message_stop"}}

----------------------------------------------------------------------------
(* What a chunk carries, read off the chunk alone *)

HasChoice(chunk) == Len(chunk.choices) > 0

HasFinish(chunk) == HasChoice(chunk) /\ IsSome(chunk.choices[1].finish_reason)

\* the non-empty text content of the chunk's delta, or <<>>
ContentOfChunk(chunk) ==
  IF HasChoice(chunk) /\ IsSome(chunk.choices[1].delta)
     /\ IsSome(Get(chunk.choices[1].delta).content)
  THEN Get(Get(chunk.choices[1].delta).content) ELSE <<>>

HasContent(chunk) == Len(ContentOfChunk(chunk)) > 0

\* the tool-call fragments of the chunk's delta
FragmentsOf(chunk) ==
  IF HasChoice(chunk) /\ IsSome(chunk.choices[1].delta)
     /\ IsSome(Get(chunk.choices[1].delta).tool_calls)
  THEN Get(Get(chunk.choices[1].delta).tool_calls) ELSE <<>>

HasResponse(res) == "response" \in DOMAIN res
IsPartial(res) == HasResponse(res) /\ "partial" \in DOMAIN res.response
IsFinal(res) == HasResponse(res) /\ "turnComplete" \in DOMAIN res.response

PartsOf(resp) == IF IsSome(resp.content) THEN Get(resp.content).parts ELSE <<>>

----------------------------------------------------------------------------
(* History variables.  They describe the turn in progress, or, right after *)
(* the call that completed a turn, the turn just completed: the next call  *)
(* starts them afresh.                                                     *)

\* (firstId and lastId: the first and the last non-empty id applied to the
\* index; rank: 0, or k when the index was the k-th to receive a fragment)
NoneFed ==
  [i \in Indexes |-> [name |-> <<>>, arguments |-> <<>>,
                      firstId |-> <<>>, lastId |-> <<>>, rank |-> 0]]

\* the rank of the next index to appear in the history f
NextRank(f) == 1 + Cardinality({i \in Indexes : f[i].rank > 0})

FragIndex(tc) == IF IsSome(tc.index) THEN Get(tc.index) ELSE 0
FragName(tc) ==
  IF IsSome(tc.function) /\ IsSome(Get(tc.function).name)
  THEN Get(Get(tc.function).name) ELSE <<>>
FragArguments(tc) ==
  IF IsSome(tc.function) /\ IsSome(Get(tc.function).arguments)
  THEN Get(Get(tc.function).arguments) ELSE <<>>
FragId(tc) == IF IsSome(tc.id) THEN Get(tc.id) ELSE <<>>

\* f extended, in arrival order, by the fragments tcs
RECURSIVE FedApply(_, _)
FedApply(f, tcs) ==
  IF tcs = <<>> THEN f
  ELSE LET tc == Head(tcs)
           i  == FragIndex(tc)
       IN  FedApply([f EXCEPT ![i].name = @ \o FragName(tc),
                              ![i].arguments = @ \o FragArguments(tc),
                              ![i].firstId = IF @ = <<>> THEN FragId(tc) ELSE @,
                              ![i].lastId = IF FragId(tc) = <<>> THEN @
                                            ELSE FragId(tc),
                              ![i].rank = IF @ = 0 THEN NextRank(f) ELSE @],
                    Tail(tcs))

\* whether the last call completed a turn
TurnOver == result # None /\ Get(result).isComplete

\* the histories the next call extends
EmittedBase == IF TurnOver THEN <<>> ELSE emitted
FedBase == IF TurnOver THEN NoneFed ELSE fed

\* dialect B history: per block index, whether a tool_use block was started
\* in this turn, with which id and name, and the partial_json fragments the
\* index received since, concatenated
NoneStarted ==
  [i \in Indexes |-> [started |-> FALSE, id |-> <<>>, name |-> <<>>,
                      arguments |-> <<>>, rank |-> 0]]

StartedBase == IF TurnOver THEN NoneStarted ELSE fed

NextStarted(event) ==
  IF event.type = "content_block_start" /\ event.content_block.type = "tool_use"
  THEN [StartedBase EXCEPT ![event.index] =
          [started |-> TRUE, id |-> event.content_block.id,
           name |-> event.content_block.name, arguments |-> <<>>,
           rank |-> IF StartedBase[event.index].rank = 0
                    THEN NextRank(StartedBase)
                    ELSE StartedBase[event.index].rank]]
  ELSE IF /\ event.type = "content_block_delta"
          /\ event.delta.type = "input_json_delta"
          /\ StartedBase[event.index].started
  THEN [StartedBase EXCEPT ![event.index].arguments = @ \o event.delta.partial_json]
  ELSE StartedBase

NextEmitted(res) ==
  IF IsPartial(res) THEN EmittedBase \o PartsOf(res.response)[1].text
  ELSE EmittedBase

NextFed(chunk) ==
  IF HasContent(chunk) THEN FedBase ELSE FedApply(FedBase, FragmentsOf(chunk))

\* The characters the accumulator holds: the text and, per slot, what the
\* fragments brought (dialect A: id, name and arguments; dialect B: the input).
AccSize(a) ==
  Len(a.text)
  + (IF "toolCalls" \in DOMAIN a
     THEN SumLen([i \in 1..Len(a.toolCalls) |->
                    a.toolCalls[i].v.id \o a.toolCalls[i].v.name
                    \o a.toolCalls[i].v.arguments])
     ELSE SumLen([i \in 1..Len(a.toolUses) |-> a.toolUses[i].v.input]))

\* the same, for the accumulator as it is when a terminal chunk's own fragments
\* have been applied
ChunkWithinBounds(chunk, a) ==
  AccSize([a EXCEPT !.toolCalls = ApplyFragments(@, FragmentsOf(chunk))]) <= MaxAcc

----------------------------------------------------------------------------
(* The streaming specification: one accumulator, created once, fed any     *)
(* sequence of chunks (dialect A) or events (dialect B).                   *)

InitStream ==
  /\ dialect \in {"A", "B"}
  /\ acc = IF dialect = "A" THEN CreateStreamAccumulator
                            ELSE CreateAnthropicStreamAccumulator
  /\ result = None
  /\ lastFinish = FALSE
  /\ emitted = <<>>
  /\ fed = IF dialect = "A" THEN NoneFed ELSE NoneStarted
  /\ input = None
  /\ clock = <<>>
  /\ registration = <<>>
  /\ inflight = <<>>

\* one iteration of streamResponse's loop: convertStreamChunk(chunk, acc)
StreamChunk ==
  /\ dialect = "A"
  /\ \E chunk \in Chunks :
       LET r == ConvertStreamChunk(chunk, acc)
       IN  /\ AccSize(r.acc) <= MaxAcc
           /\ ~HasContent(chunk) => ChunkWithinBounds(chunk, acc)
           /\ acc' = r.acc
           /\ result' = Some(r.result)
           /\ lastFinish' = HasFinish(chunk)
           /\ emitted' = NextEmitted(r.result)
           /\ fed' = NextFed(chunk)
           /\ input' = Some([content |-> ContentOfChunk(chunk),
                             tool_calls |-> FragmentsOf(chunk)])
  /\ UNCHANGED <<dialect, clock, inflight, registration>>

\* one call of convertAnthropicStreamEvent(event, acc)
StreamEvent ==
  /\ dialect = "B"
  /\ \E event \in Events :
       LET r == ConvertAnthropicStreamEvent(event, acc)
       IN  /\ AccSize(r.acc) <= MaxAcc
           /\ acc' = r.acc
           /\ result' = Some(r.result)
           /\ lastFinish' = (event.type = "message_stop")
           /\ emitted' = NextEmitted(r.result)
           /\ fed' = NextStarted(event)
           /\ input' = Some([type |-> event.type])
  /\ UNCHANGED <<dialect, clock, inflight, registration>>

NextStream == StreamChunk \/ StreamEvent

SpecStream == InitStream /\ [][NextStream]_vars

----------------------------------------------------------------------------
(* Single-shot: convertResponse *)

\* the response returned for an empty choice list
NoChoiceResponse_WithContent ==
  [content |-> None, errorCode |-> "NO_CHOICE", errorMessage |-> "No response choice",
   turnComplete |-> TRUE]

NoChoiceResponse ==
  [errorCode |-> "NO_CHOICE", errorMessage |-> "No response choice",
   turnComplete |-> TRUE]

\* for (const tc of choice.message.tool_calls ?? []) parts.push(...)
RECURSIVE ToolCallParts_Named(_)
ToolCallParts_Named(tcs) ==
  IF tcs = <<>> THEN <<>>
  ELSE LET tc == Head(tcs)
       IN  (IF Len(tc.function.name) > 0
            THEN <<FunctionCallPart(tc.id, tc.function.name,
                                    SafeJsonParse(tc.function.arguments))>>
            ELSE <<>>) \o ToolCallParts_Named(Tail(tcs))

RECURSIVE ToolCallParts(_)
ToolCallParts(tcs) ==
  IF tcs = <<>> THEN <<>>
  ELSE LET tc == Head(tcs)
       IN  <<FunctionCallPart(tc.id, tc.function.name,
                              SafeJsonParse(tc.function.arguments))>>
           \o ToolCallParts(Tail(tcs))

UsageMetadata(usage) ==
  IF IsSome(usage)
  THEN Some([promptTokenCount     |-> Get(usage).prompt_tokens,
             candidatesTokenCount |-> Get(usage).completion_tokens,
             totalTokenCount      |-> Get(usage).total_tokens])
  ELSE None

ConvertResponse(response) ==
  IF Len(response.choices) = 0 THEN NoChoiceResponse
  ELSE
    LET choice == response.choices[1]
        parts  ==
          (IF Truthy(choice.message.content)
           THEN <<TextPart(Get(choice.message.content))>> ELSE <<>>)
          \o ToolCallParts(IF IsSome(choice.message.tool_calls)
                           THEN Get(choice.message.tool_calls) ELSE <<>>)
    IN  [content       |-> ContentOf(parts),
         turnComplete  |-> TRUE,
         usageMetadata |-> UsageMetadata(response.usage)]

\* Bound: the tool calls of one message.
MaxToolCalls == 2

ToolCall(id, name, arguments) ==
  [id |-> id, type |-> "function", function |-> [name |-> name, arguments |-> arguments]]

\* Tool calls with valid arguments (an empty object, one key, two keys, a
\* number), with malformed arguments (truncated, empty) and with an empty name.
ToolCalls ==
  {ToolCall(<<"x">>, <<"f">>, <<"{", "}">>),
   ToolCall(<<"y">>, <<"g">>, <<"{", "k", "}">>),
   ToolCall(<<"x">>, <<"g">>, <<"{", "k", ",", "j", "}">>),
   ToolCall(<<"y">>, <<"f">>, <<"{", "k">>),
   ToolCall(<<"x">>, <<"f">>, <<>>),
   ToolCall(<<"y">>, <<>>, <<"1">>)}

RECURSIVE SeqsUpTo(_, _)
SeqsUpTo(S, n) ==
  IF n = 0 THEN {<<>>}
  ELSE LET shorter == SeqsUpTo(S, n - 1)
       IN  shorter \cup {Append(q, x) : q \in shorter, x \in S}

Messages ==
  {[role |-> "assistant", content |-> c, tool_calls |-> tcs] :
     c   \in {None, Some(<<>>), Some(<<"a">>), Some(<<"a", "b">>)},
     tcs \in {None} \cup {Some(l) : l \in SeqsUpTo(ToolCalls, MaxToolCalls)}}

OtherChoices ==
  {[message |-> [role |-> "assistant", content |-> Some(<<"b">>), tool_calls |-> None]],
   [message |-> [role |-> "assistant", content |-> None,
                 tool_calls |-> Some(<<ToolCall(<<"y">>, <<"g">>, <<"1">>)>>)]]}

Usages ==
  {None, Some([prompt_tokens |-> 1, completion_tokens |-> 2, total_tokens |-> 3])}

Responses ==
  {[choices |-> cs, usage |-> u] :
     cs \in {<<>>} \cup {<<[message |-> m]>> : m \in Messages}
             \cup {<<[message |-> m], o>> : m \in Messages, o \in OtherChoices},
     u  \in Usages}

InitResponse ==
  /\ dialect = "single"
  /\ input \in Responses
  /\ result = None
  /\ acc = None
  /\ lastFinish = FALSE
  /\ emitted = <<>>
  /\ fed = NoneFed
  /\ clock = <<>>
  /\ registration = <<>>
  /\ inflight = <<>>

\* singleResponse: convertResponse(response)
SingleResponse ==
  /\ dialect = "single"
  /\ result = None
  /\ result' = Some(ConvertResponse(input))
  /\ UNCHANGED <<dialect, acc, lastFinish, emitted, fed, input, clock, inflight, registration>>

NextResponse == SingleResponse

SpecResponse == InitResponse /\ [][NextResponse]_vars

----------------------------------------------------------------------------
(* Claims about the stream accumulators *)

Called == result # None
Res == Get(result)

AccSlots == IF dialect = "A" THEN acc.toolCalls ELSE acc.toolUses

\* the slot of index i, or an untouched slot when the map has none
SlotAt(m, i) == IF MapHas(m, i) THEN MapGet(m, i) ELSE NewToolCall

\* the slots of m hold exactly the strings of f
SlotsHold(m, f) ==
  /\ \A k \in 1..Len(m) : m[k].k \in Indexes
  /\ \A i \in Indexes : /\ SlotAt(m, i).name = f[i].name
                         /\ SlotAt(m, i).arguments = f[i].arguments

TextParts(parts) == SelectSeq(parts, IsTextPart)
CallsOf(parts) == SelectSeq(parts, IsCallPart)

NamedIndexes(f) == {i \in Indexes : Len(f[i].name) > 0}

\* the function-call parts are those of the named slots of f
CallsMatch(parts, f) ==
  /\ Len(CallsOf(parts)) = Cardinality(NamedIndexes(f))
  /\ \A i \in NamedIndexes(f) :
       \E k \in 1..Len(parts) :
         /\ IsCallPart(parts[k])
         /\ parts[k].functionCall.name = f[i].name
         /\ parts[k].functionCall.args =
              (IF IsValidJson(f[i].arguments) THEN JsonParse(f[i].arguments)
               ELSE EmptyObject)

\* C1 (as claimed): right after a call whose fragment was terminal (a chunk
\* whose first choice has a non-null finish_reason, a message_stop event) the
\* accumulator's text is empty and its tool-call map is empty.
C1_ResetAfterTerminal ==
  lastFinish => (acc.text = <<>> /\ AccSlots = <<>>)

\* C2 (as claimed): for every chunk whose first choice has a non-null
\* finish_reason, convertStreamChunk returns isComplete = true and a response
\* with turnComplete = true whose parts are the accumulated text, if not
\* empty, followed by one functionCall part per named slot, the chunk's own
\* fragments included; content is undefined when there are no parts.
C2_TerminalEmission ==
  dialect = "A" =>
    \A chunk \in Chunks :
      HasFinish(chunk) =>
        LET r  == ConvertStreamChunk(chunk, acc).result
            f1 == FedApply(FedBase, FragmentsOf(chunk))
        IN  /\ r.isComplete
            /\ IsFinal(r)
            /\ r.response.turnComplete
            /\ TextParts(PartsOf(r.response)) =
                 (IF Len(acc.text) > 0 THEN <<TextPart(acc.text)>> ELSE <<>>)
            /\ CallsMatch(PartsOf(r.response), f1)
            /\ (r.response.content = None) <=> (PartsOf(r.response) = <<>>)

C4_PartialVersusFinal ==
  /\ (Called /\ ~TurnOver) => acc.text = emitted
  /\ (Called /\ IsPartial(Res)) =>
       /\ ~Res.isComplete
       /\ "turnComplete" \notin DOMAIN Res.response
       /\ \E t \in {<<>>} \cup TextFrags : PartsOf(Res.response) = <<TextPart(t)>>
  /\ (Called /\ IsFinal(Res)) =>
       /\ Res.response.turnComplete
       /\ "partial" \notin DOMAIN Res.response
       /\ TextParts(PartsOf(Res.response)) =
            (IF Len(emitted) > 0 THEN <<TextPart(emitted)>> ELSE <<>>)
  /\ dialect = "B" =>
       \A event \in Events :
         LET r == ConvertAnthropicStreamEvent(event, acc).result
         IN  IsPartial(r) =>
               /\ event.type = "content_block_delta"
               /\ event.delta.type = "text_delta"
               /\ PartsOf(r.response) = <<TextPart(event.delta.text)>>
  /\ dialect = "A" =>
       \A chunk \in Chunks :
         LET r == ConvertStreamChunk(chunk, acc).result
         IN  IsPartial(r) => PartsOf(r.response) = <<TextPart(ContentOfChunk(chunk))>>

C4_Witness ==
  /\ dialect = "B"
  /\ Called /\ IsFinal(Res)
  /\ emitted = <<"a", "b">>
  /\ PartsOf(Res.response)[1] = TextPart(<<"a", "b">>)

\* C5 (as claimed): the slot of index i holds the concatenation, in arrival
\* order, of all name fragments and of all arguments fragments that carried
\* index i (0 when the fragment has no index), whatever chunk brought them; a
\* chunk with only tool-call fragments and no finish_reason emits no response
\* and returns isComplete = false.
C5_AllFragmentsKept ==
  dialect = "A" =>
    \A chunk \in Chunks :
      LET r  == ConvertStreamChunk(chunk, acc)
          f1 == FedApply(FedBase, FragmentsOf(chunk))
      IN  /\ ~HasFinish(chunk) => SlotsHold(r.acc.toolCalls, f1)
          /\ (~HasFinish(chunk) /\ ~HasContent(chunk)) =>
                r.result = [isComplete |-> FALSE]

\* C5 (amended): the same, for the fragments of chunks whose delta has no
\* non-empty text content: at any time of a turn the slot of index i holds the
\* concatenation of those fragments, and the final response carries one
\* functionCall part per slot with a non-empty name, its args parsed from the
\* concatenated argument string.
C5_ToolCallReassembly ==
  dialect = "A" =>
    /\ (Called /\ ~TurnOver) => SlotsHold(acc.toolCalls, fed)
    /\ (Called /\ IsFinal(Res)) => CallsMatch(PartsOf(Res.response), fed)
    /\ \A chunk \in Chunks :
         ~HasContent(chunk) =>
           LET r  == ConvertStreamChunk(chunk, acc)
               f1 == FedApply(FedBase, FragmentsOf(chunk))
           IN  /\ ~HasFinish(chunk) => /\ SlotsHold(r.acc.toolCalls, f1)
                                       /\ r.result = [isComplete |-> FALSE]
               /\ HasFinish(chunk) => CallsMatch(PartsOf(r.result.response), f1)

C5_Witness ==
  /\ dialect = "A"
  /\ Called /\ IsFinal(Res)
  /\ fed[0].name = <<"f", "g">>
  /\ \E k \in 1..Len(PartsOf(Res.response)) :
       /\ IsCallPart(PartsOf(Res.response)[k])
       /\ PartsOf(Res.response)[k].functionCall.name = <<"f", "g">>

----------------------------------------------------------------------------
(* Claims about convertResponse *)

Converted == dialect = "single" /\ Called

\* choice 0 of the response converted
Choice0 == input.choices[1]
Choice0Text ==
  IF IsSome(Choice0.message.content) THEN Get(Choice0.message.content) ELSE <<>>
Choice0Calls ==
  IF IsSome(Choice0.message.tool_calls) THEN Get(Choice0.message.tool_calls) ELSE <<>>

\* C7: convertResponse on a response with zero choices returns exactly
\* {errorCode: "NO_CHOICE", errorMessage: "No response choice", turnComplete:
\* true}: no content, no usageMetadata, also when the response reports usage.
C7_NoChoice ==
  (Converted /\ Len(input.choices) = 0) =>
    /\ DOMAIN Res = {"errorCode", "errorMessage", "turnComplete"}
    /\ Res.errorCode = "NO_CHOICE"
    /\ Res.errorMessage = "No response choice"
    /\ Res.turnComplete = TRUE

C7_Witness ==
  /\ Converted
  /\ Len(input.choices) = 0
  /\ IsSome(input.usage)
  /\ Res.errorCode = "NO_CHOICE"

\* C8: for a response with at least one choice convertResponse uses choice 0
\* only and returns turnComplete = true with parts = the text part, if the
\* message content is not empty, followed by one functionCall part per tool
\* call in the vendor's order, with the same id and name; content is
\* undefined, never an empty parts list, exactly when there is neither.
C8_SingleShot ==
  (Converted /\ Len(input.choices) >= 1) =>
    LET parts == PartsOf(Res)
        off   == IF Len(Choice0Text) > 0 THEN 1 ELSE 0
    IN  /\ Res.turnComplete = TRUE
        /\ "errorCode" \notin DOMAIN Res
        /\ Len(parts) = off + Len(Choice0Calls)
        /\ off = 1 => parts[1] = [text |-> Choice0Text]
        /\ \A k \in 1..Len(Choice0Calls) :
             /\ IsCallPart(parts[off + k])
             /\ parts[off + k].functionCall.id = Choice0Calls[k].id
             /\ parts[off + k].functionCall.name = Choice0Calls[k].function.name
        /\ (Res.content = None) <=> (off = 0 /\ Len(Choice0Calls) = 0)
        /\ IsSome(Res.content) =>
             /\ Get(Res.content).role = "model"
             /\ Len(Get(Res.content).parts) > 0

C8_Witness ==
  /\ Converted
  /\ Len(input.choices) = 2
  /\ Len(Choice0Text) = 2
  /\ Len(Choice0Calls) = 2
  /\ Choice0Calls[1].id # Choice0Calls[2].id
  /\ Len(PartsOf(Res)) = 3

----------------------------------------------------------------------------
(* convertRequest: an ADK request becomes a list of chat messages and a    *)
(* list of tools.                                                          *)

RECURSIVE JoinWith_NoSeparator(_, _)
JoinWith_NoSeparator(strs, sep) ==
  IF strs = <<>> THEN <<>> ELSE Head(strs) \o JoinWith_NoSeparator(Tail(strs), sep)

\* Array.prototype.join
RECURSIVE JoinWith(_, _)
JoinWith(strs, sep) ==
  IF strs = <<>> THEN <<>>
  ELSE IF Len(strs) = 1 THEN Head(strs)
  ELSE Head(strs) \o sep \o JoinWith(Tail(strs), sep)

Newline == <<"\n">>

\* JSON.stringify of an object of the token model: its members between braces
JsonStringify(o) ==
  <<"{">> \o JoinWith([i \in 1..Len(o.obj) |-> <<o.obj[i]>>], <<",">>) \o <<"}">>

\* a fallback id without the prefix
CallId_NoPrefix(ms) == <<ToString(ms)>>

\* `call_${Date.now()}`
CallId(ms) == <<"c", "a", "l", "l", "_">> \o <<ToString(ms)>>

\* parts.map((p) => p.text).filter(Boolean)
RECURSIVE TruthyTexts(_)
TruthyTexts(parts) ==
  IF parts = <<>> THEN <<>>
  ELSE (IF Truthy(Head(parts).text) THEN <<Get(Head(parts).text)>> ELSE <<>>)
       \o TruthyTexts(Tail(parts))

ExtractText_Unfiltered(parts) ==
  JoinWith([i \in 1..Len(SelectSeq(parts, LAMBDA p : IsSome(p.text))) |->
              Get(SelectSeq(parts, LAMBDA p : IsSome(p.text))[i].text)], Newline)

ExtractText(parts) == JoinWith(TruthyTexts(parts), Newline)

\* null is None; a string instruction is [str |-> s], a Content is [parts |-> ...]
ExtractSystemInstruction(req) ==
  LET sys == IF IsSome(req.config) THEN Get(req.config).systemInstruction ELSE None
  IN  IF ~IsSome(sys) THEN None
      ELSE IF "str" \in DOMAIN Get(sys)
      THEN (IF Len(Get(sys).str) = 0 THEN None ELSE Some(Get(sys).str))
      ELSE IF "parts" \in DOMAIN Get(sys)
      THEN Some(ExtractText(IF IsSome(Get(sys).parts) THEN Get(Get(sys).parts) ELSE <<>>))
      ELSE None

\* the body of processContent's loop over content.parts; c holds texts, calls,
\* responses and the clock readings not yet consumed
CollectPart(part, c) ==
  LET fc   == Get(part.functionCall)
      fr   == Get(part.functionResponse)
      noId == IsSome(part.functionCall) /\ ~IsSome(fc.id)
  IN  [texts     |-> IF Truthy(part.text) THEN Append(c.texts, Get(part.text))
                     ELSE c.texts,
       calls     |-> IF IsSome(part.functionCall)
                     THEN Append(c.calls,
                            [id        |-> IF IsSome(fc.id) THEN Get(fc.id)
                                           ELSE CallId(Head(c.now)),
                             name      |-> IF IsSome(fc.name) THEN Get(fc.name) ELSE <<>>,
                             arguments |-> JsonStringify(IF IsSome(fc.args) THEN Get(fc.args)
                                                         ELSE EmptyObject)])
                     ELSE c.calls,
       responses |-> IF IsSome(part.functionResponse)
                     THEN Append(c.responses,
                            [id      |-> IF IsSome(fr.id) THEN Get(fr.id) ELSE <<>>,
                             content |-> JsonStringify(IF IsSome(fr.response)
                                                       THEN Get(fr.response)
                                                       ELSE EmptyObject)])
                     ELSE c.responses,
       now       |-> IF noId THEN Tail(c.now) ELSE c.now]

RECURSIVE CollectParts(_, _)
CollectParts(parts, c) ==
  IF parts = <<>> THEN c ELSE CollectParts(Tail(parts), CollectPart(Head(parts), c))

\* for (const r of responses) messages.push({ role: "tool", ... })
ToolMessages(responses) ==
  [i \in 1..Len(responses) |->
     [role |-> "tool", tool_call_id |-> responses[i].id, content |-> responses[i].content]]

\* if (content.role === "user") { ... }
UserBranch_Merged(texts, responses) ==
  IF Len(texts) > 0 \/ Len(responses) > 0
  THEN <<[role    |-> "user",
          content |-> JoinWith(texts \o [i \in 1..Len(responses) |-> responses[i].content],
                               Newline)]>>
  ELSE <<>>

UserBranch(texts, responses) ==
  (IF Len(texts) > 0
   THEN <<[role |-> "user", content |-> JoinWith(texts, Newline)]>> ELSE <<>>)
  \o ToolMessages(responses)

\* calls.map((c) => ({ id, type: "function", function: { name, arguments } }))
ToolCallsOf(calls) ==
  [i \in 1..Len(calls) |->
     [id       |-> calls[i].id,
      type     |-> "function",
      function |-> [name |-> calls[i].name, arguments |-> calls[i].arguments]]]

\* else if (content.role === "model") { ... }
ModelBranch_EmptyContent(texts, calls) ==
  IF Len(texts) > 0 \/ Len(calls) > 0
  THEN LET content == Some(JoinWith(texts, Newline))
       IN  IF Len(calls) > 0
           THEN <<[role |-> "assistant", content |-> content,
                   tool_calls |-> ToolCallsOf(calls)]>>
           ELSE <<[role |-> "assistant", content |-> content]>>
  ELSE <<>>

ModelBranch(texts, calls) ==
  IF Len(texts) > 0 \/ Len(calls) > 0
  THEN LET content == IF Len(texts) > 0 THEN Some(JoinWith(texts, Newline)) ELSE None
       IN  IF Len(calls) > 0
           THEN <<[role |-> "assistant", content |-> content,
                   tool_calls |-> ToolCallsOf(calls)]>>
           ELSE <<[role |-> "assistant", content |-> content]>>
  ELSE <<>>

ProcessContent_OtherAsUser(content, messages, now) ==
  IF ~IsSome(content.parts) \/ Len(Get(content.parts)) = 0
  THEN [messages |-> messages, now |-> now]
  ELSE LET c == CollectParts(Get(content.parts),
                             [texts |-> <<>>, calls |-> <<>>, responses |-> <<>>,
                              now |-> now])
       IN  [messages |->
              IF content.role = "model" THEN messages \o ModelBranch(c.texts, c.calls)
              ELSE messages \o UserBranch(c.texts, c.responses),
            now |-> c.now]

\* processContent: the messages with those of one turn pushed, and the clock
\* readings left
\* a conversion that turns the function calls of a user turn into an assistant
\* message
ProcessContent_CallsOfUser(content, messages, now) ==
  IF ~IsSome(content.parts) \/ Len(Get(content.parts)) = 0
  THEN [messages |-> messages, now |-> now]
  ELSE LET c == CollectParts(Get(content.parts),
                             [texts |-> <<>>, calls |-> <<>>, responses |-> <<>>,
                              now |-> now])
       IN  [messages |->
              IF content.role = "user"
              THEN messages \o UserBranch(c.texts, c.responses)
                            \o ModelBranch(<<>>, c.calls)
              ELSE IF content.role = "model" THEN messages \o ModelBranch(c.texts, c.calls)
              ELSE messages,
            now |-> c.now]

ProcessContent(content, messages, now) ==
  IF ~IsSome(content.parts) \/ Len(Get(content.parts)) = 0
  THEN [messages |-> messages, now |-> now]
  ELSE LET c == CollectParts(Get(content.parts),
                             [texts |-> <<>>, calls |-> <<>>, responses |-> <<>>,
                              now |-> now])
       IN  [messages |->
              IF content.role = "user" THEN messages \o UserBranch(c.texts, c.responses)
              ELSE IF content.role = "model" THEN messages \o ModelBranch(c.texts, c.calls)
              ELSE messages,
            now |-> c.now]

\* for (const content of llmRequest.contents ?? []) processContent(content, messages)
RECURSIVE ProcessContents(_, _, _)
ProcessContents(contents, messages, now) ==
  IF contents = <<>> THEN messages
  ELSE LET r == ProcessContent(Head(contents), messages, now)
       IN  ProcessContents(Tail(contents), r.messages, r.now)

\* Schema values, tagged with what typeof / Array.isArray say of them.
Undefined == [t |-> "undefined"]
Str(s) == [t |-> "string", v |-> s]
Arr(items) == [t |-> "array", items |-> items]
Obj(entries) == [t |-> "object", entries |-> entries]

\* String.prototype.toLowerCase, on the letters the type names use
LowerChar_Toggle(c) ==
  CASE c = "O" -> "o" [] c = "B" -> "b" [] c = "S" -> "s"
    [] c = "o" -> "O" [] c = "b" -> "B" [] c = "s" -> "S" [] OTHER -> c

LowerChar(c) ==
  CASE c = "O" -> "o" [] c = "B" -> "b" [] c = "S" -> "s" [] OTHER -> c

ToLowerCase(s) == [i \in 1..Len(s) |-> LowerChar(s[i])]

\* Object.entries(input): an array's entries are keyed by its indexes
Entries(schema) ==
  IF schema.t = "array"
  THEN [i \in 1..Len(schema.items) |-> [k |-> ToString(i - 1), v |-> schema.items[i]]]
  ELSE schema.entries

NormalizeSchema_Shallow(schema) ==
  IF schema.t \notin {"object", "array"} THEN Undefined
  ELSE Obj([i \in 1..Len(Entries(schema)) |->
              LET e == Entries(schema)[i]
              IN  IF e.k = "type" /\ e.v.t = "string"
                  THEN [k |-> e.k, v |-> Str(ToLowerCase(e.v.v))]
                  ELSE e])

RECURSIVE NormalizeSchema(_)
NormalizeSchema(schema) ==
  IF schema.t \notin {"object", "array"} THEN Undefined
  ELSE Obj([i \in 1..Len(Entries(schema)) |->
              LET e == Entries(schema)[i]
              IN  IF e.k = "type" /\ e.v.t = "string"
                  THEN [k |-> e.k, v |-> Str(ToLowerCase(e.v.v))]
                  ELSE IF e.v.t = "object"
                  THEN [k |-> e.k, v |-> NormalizeSchema(e.v)]
                  ELSE e])

\* { type: "object", properties: {} }
DefaultParameters ==
  Obj(<<[k |-> "type", v |-> Str(<<"o", "b">>)], [k |-> "properties", v |-> Obj(<<>>)]>>)

\* tools.push({ type: "function", function: { ... } })
ToolOf(fn) ==
  [type     |-> "function",
   function |-> [name        |-> IF IsSome(fn.name) THEN Get(fn.name) ELSE <<>>,
                 description |-> IF IsSome(fn.description) THEN Get(fn.description) ELSE <<>>,
                 parameters  |-> IF NormalizeSchema(fn.parameters) = Undefined
                                 THEN DefaultParameters
                                 ELSE NormalizeSchema(fn.parameters)]]

\* for (const group of adkTools) ...
RECURSIVE GroupTools(_)
GroupTools(groups) ==
  IF groups = <<>> THEN <<>>
  ELSE LET group == Head(groups)
       IN  (IF "functionDeclarations" \in DOMAIN group /\ IsSome(group.functionDeclarations)
            THEN [i \in 1..Len(Get(group.functionDeclarations)) |->
                    ToolOf(Get(group.functionDeclarations)[i])]
            ELSE <<>>) \o GroupTools(Tail(groups))

ConvertTools_EmptyArray(req) ==
  LET adkTools == IF IsSome(req.config) THEN Get(req.config).tools ELSE None
  IN  IF ~IsSome(adkTools) \/ Len(Get(adkTools)) = 0 THEN None
      ELSE Some(GroupTools(Get(adkTools)))

ConvertTools(req) ==
  LET adkTools == IF IsSome(req.config) THEN Get(req.config).tools ELSE None
  IN  IF ~IsSome(adkTools) \/ Len(Get(adkTools)) = 0 THEN None
      ELSE IF Len(GroupTools(Get(adkTools))) > 0 THEN Some(GroupTools(Get(adkTools)))
      ELSE None

\* now holds the values the calls of Date.now() return, in call order
ConvertRequest(llmRequest, now) ==
  LET systemContent == ExtractSystemInstruction(llmRequest)
      messages == IF Truthy(systemContent)
                  THEN <<[role |-> "system", content |-> Get(systemContent)]>>
                  ELSE <<>>
  IN  [messages |-> ProcessContents(IF IsSome(llmRequest.contents)
                                    THEN Get(llmRequest.contents) ELSE <<>>,
                                    messages, now),
       tools    |-> ConvertTools(llmRequest)]

----------------------------------------------------------------------------
(* The requests the caller may pass *)

\* Bound: the parts of one request's turns, all turns together.
MaxParts == 2

Objects == {EmptyObject, [obj |-> <<"k">>], [obj |-> <<"k", "j">>]}

FunctionCall(id, name, args) == [id |-> id, name |-> name, args |-> args]
FunctionResponse(id, response) == [id |-> id, response |-> response]
Part(text, functionCall, functionResponse) ==
  [text |-> text, functionCall |-> functionCall, functionResponse |-> functionResponse]

Parts ==
  {Part(Some(t), None, None) : t \in {<<"a">>, <<"b">>, <<>>}}
  \cup {Part(None, Some(FunctionCall(Some(<<"x">>), Some(<<"f">>), Some([obj |-> <<"k">>]))),
             None),
        Part(None, Some(FunctionCall(None, None, None)), None),
        Part(None, None, Some(FunctionResponse(Some(<<"x">>),
                                               Some([obj |-> <<"k", "j">>])))),
        Part(None, None, Some(FunctionResponse(None, None))),
        Part(Some(<<"a">>),
             Some(FunctionCall(Some(<<"y">>), Some(<<"g">>), Some(EmptyObject))),
             Some(FunctionResponse(Some(<<"y">>), Some(EmptyObject))))}

Roles == {"user", "model", "function"}

Content(role, parts) == [role |-> role, parts |-> parts]

\* the turns with n parts; a turn without parts has none or an empty list
Contents(n) ==
  {Content(r, p) : r \in Roles,
                   p \in IF n = 0 THEN {None, Some(<<>>)}
                         ELSE {Some(ps) : ps \in [1..n -> Parts]}}

ContentLists ==
  {<<>>}
  \cup UNION {{<<c>> : c \in Contents(n)} : n \in 0..MaxParts}
  \cup UNION {{<<c1, c2>> : c1 \in Contents(nn[1]), c2 \in Contents(nn[2])} :
                nn \in {mm \in (0..MaxParts) \X (0..MaxParts) : mm[1] + mm[2] <= MaxParts}}

SystemInstructions ==
  {None, Some([str |-> <<>>]), Some([str |-> <<"s">>]),
   Some([parts |-> None]),
   Some([parts |-> Some(<<Part(Some(<<"s">>), None, None), Part(Some(<<>>), None, None),
                          Part(Some(<<"t">>), None, None)>>)]),
   Some([parts |-> Some(<<Part(None, Some(FunctionCall(None, None, None)), None)>>)]),
   Some([role |-> "user"])}

Schemas ==
  {Undefined,
   Str(<<"S">>),
   Obj(<<[k |-> "type", v |-> Str(<<"O", "B">>)],
         [k |-> "properties",
          v |-> Obj(<<[k |-> "type", v |-> Obj(<<[k |-> "type", v |-> Str(<<"S">>)]>>)],
                      [k |-> "enum", v |-> Arr(<<Str(<<"S">>)>>)]>>)]>>),
   Arr(<<Obj(<<[k |-> "type", v |-> Str(<<"S">>)]>>)>>),
   Obj(<<[k |-> "type", v |-> Arr(<<Str(<<"S">>)>>)],
         [k |-> "title", v |-> Str(<<"S">>)],
         [k |-> "items",
          v |-> Obj(<<[k |-> "type", v |-> Str(<<"s", "B">>)],
                      [k |-> "anyOf", v |-> Arr(<<Obj(<<[k |-> "type", v |-> Str(<<"S">>)]>>)>>)],
                      [k |-> "default", v |-> [t |-> "null"]]>>)]>>)}

Declaration(name, description, parameters) ==
  [name |-> name, description |-> description, parameters |-> parameters]

Declarations ==
  {Declaration(Some(<<"f">>), Some(<<"d">>), p) : p \in Schemas}
  \cup {Declaration(None, None, Undefined)}

Groups ==
  {[functionDeclarations |-> Some(<<d>>)] : d \in Declarations}
  \cup {[functionDeclarations |-> Some(<<>>)],
        [functionDeclarations |-> None],
        [googleSearch |-> TRUE],
        [functionDeclarations |->
           Some(<<Declaration(Some(<<"g">>), None, Undefined),
                  Declaration(Some(<<"f">>), Some(<<"d">>), Str(<<"S">>))>>)]}

ToolLists ==
  {None, Some(<<>>)}
  \cup {Some(<<g>>) : g \in Groups}
  \cup {Some(<<[googleSearch |-> TRUE], g>>) : g \in Groups}

LlmRequest(systemInstruction, tools, contents) ==
  [config   |-> Some([systemInstruction |-> systemInstruction, tools |-> tools]),
   contents |-> contents]

\* every turn list with one of two system instructions and no tools; every
\* configuration with a short turn list; requests without config or contents
Requests ==
  {LlmRequest(sys, None, Some(cs)) :
     sys \in {None, Some([str |-> <<"s">>])}, cs \in ContentLists}
  \cup {LlmRequest(sys, tools, Some(cs)) :
          sys \in SystemInstructions, tools \in ToolLists,
          cs \in {<<>>, <<Content("user", Some(<<Part(Some(<<"a">>), None, None)>>))>>}}
  \cup {[config |-> None, contents |-> cs] :
          cs \in {None, Some(<<Content("model", Some(<<Part(Some(<<"b">>), None, None)>>))>>)}}

\* the number of times the conversion of req reads the clock: once per
\* functionCall part without an id, in any turn
RECURSIVE DateNowCalls(_)
DateNowCalls(contents) ==
  IF contents = <<>> THEN 0
  ELSE (IF IsSome(Head(contents).parts)
        THEN Len(SelectSeq(Get(Head(contents).parts),
                           LAMBDA p : IsSome(p.functionCall) /\ ~IsSome(Get(p.functionCall).id)))
        ELSE 0) + DateNowCalls(Tail(contents))

Times == {1, 2}

\* a clock never runs backwards
Clocks(n) ==
  {c \in [1..n -> Times] : \A i \in 1..n : \A j \in i..n : c[i] <= c[j]}

InitRequest ==
  /\ dialect = "request"
  /\ input \in Requests
  /\ result = None
  /\ acc = None
  /\ lastFinish = FALSE
  /\ emitted = <<>>
  /\ fed = NoneFed
  /\ clock = <<>>
  /\ registration = <<>>
  /\ inflight = <<>>

\* generateContentAsync: convertRequest(llmRequest)
ConvertRequestCall ==
  /\ dialect = "request"
  /\ result = None
  /\ \E now \in Clocks(DateNowCalls(IF IsSome(input.contents)
                                    THEN Get(input.contents) ELSE <<>>)) :
       /\ result' = Some(ConvertRequest(input, now))
       /\ clock' = now
  /\ UNCHANGED <<dialect, acc, lastFinish, emitted, fed, input, inflight, registration>>

NextRequest == ConvertRequestCall

SpecRequest == InitRequest /\ [][NextRequest]_vars

----------------------------------------------------------------------------
(* The response converters together: an accumulator of either dialect fed  *)
(* any fragment sequence, or one single-shot conversion.                   *)

InitConverters == InitStream \/ InitResponse

NextConverters == NextStream \/ NextResponse

SpecConverters == InitConverters /\ [][NextConverters]_vars

----------------------------------------------------------------------------
(* Claims about malformed arguments *)

\* what a tool call's argument string must become
ExpectedArgs(str) == IF IsValidJson(str) THEN JsonParse(str) ELSE EmptyObject

IsNamed(slot) == Len(slot.name) > 0

\* the parts a final assembly must produce from the text and the slots
ExpectedFinalParts(text, slots) ==
  LET named == SelectSeq(slots, IsNamed)
  IN  (IF text = <<>> THEN <<>> ELSE <<[text |-> text]>>)
      \o [k \in 1..Len(named) |->
            [functionCall |-> [id   |-> named[k].id,
                               name |-> named[k].name,
                               args |-> ExpectedArgs(named[k].arguments)]]]

\* the slots of an accumulator of dialect B, its input being the argument string
InputSlots(toolUses) ==
  [k \in 1..Len(toolUses) |->
     [id |-> toolUses[k].v.id, name |-> toolUses[k].v.name,
      arguments |-> toolUses[k].v.input]]

\* C6: a tool call whose argument string is not valid JSON (the empty string
\* included) yields a functionCall part with args = {} and the other parts of
\* the response are what they are without it: in convertResponse every part
\* of choice 0 is the text part or the call part with its arguments parsed,
\* or {} when they do not parse; the final assembly of convertStreamChunk and
\* the message_stop assembly of convertAnthropicStreamEvent produce, from any
\* accumulator, the text part and one part per named slot built the same way.
\* No conversion fails.
C6_MalformedArguments ==
  /\ (Converted /\ Len(input.choices) >= 1) =>
       PartsOf(Res) =
         (IF Choice0Text = <<>> THEN <<>> ELSE <<[text |-> Choice0Text]>>)
         \o [k \in 1..Len(Choice0Calls) |->
               [functionCall |->
                  [id   |-> Choice0Calls[k].id,
                   name |-> Choice0Calls[k].function.name,
                   args |-> ExpectedArgs(Choice0Calls[k].function.arguments)]]]
  /\ dialect = "A" =>
       \A chunk \in Chunks :
         (HasFinish(chunk) /\ ~HasContent(chunk)) =>
           LET r     == ConvertStreamChunk(chunk, acc).result
               slots == MapValues(ApplyFragments(acc.toolCalls, FragmentsOf(chunk)))
           IN  /\ r.isComplete
               /\ PartsOf(r.response) = ExpectedFinalParts(acc.text, slots)
  /\ dialect = "B" =>
       \A event \in Events :
         event.type = "message_stop" =>
           LET r == ConvertAnthropicStreamEvent(event, acc).result
           IN  /\ r.isComplete
               /\ PartsOf(r.response) =
                    ExpectedFinalParts(acc.text, InputSlots(acc.toolUses))
  /\ (dialect \in {"A", "B"} /\ Called /\ IsFinal(Res)) =>
       \A k \in 1..Len(PartsOf(Res.response)) :
         LET part == PartsOf(Res.response)[k]
         IN  IsCallPart(part) => "threw" \notin DOMAIN part.functionCall.args

\* a response with text, a call with truncated arguments and a call with
\* valid ones has been converted
C6_Witness ==
  /\ Converted
  /\ Len(input.choices) >= 1
  /\ Len(Choice0Text) > 0
  /\ Len(Choice0Calls) = 2
  /\ Choice0Calls[1].function.arguments = <<"{", "k">>
  /\ Choice0Calls[2].function.arguments = <<"{", "k", "}">>
  /\ PartsOf(Res)[2].functionCall.args = EmptyObject
  /\ PartsOf(Res)[3].functionCall.args = [obj |-> <<"k">>]

----------------------------------------------------------------------------
(* Claims about convertRequest *)

RequestConverted == dialect = "request" /\ Called

Turns == IF IsSome(input.contents) THEN Get(input.contents) ELSE <<>>
Msgs == Res.messages

PartsOfTurn(t) == IF IsSome(t.parts) THEN Get(t.parts) ELSE <<>>

HasText(p) == IsSome(p.text) /\ Get(p.text) # <<>>
HasCall(p) == IsSome(p.functionCall)
HasFunctionResponse(p) == IsSome(p.functionResponse)

TextsOfTurn(t) == SelectSeq(PartsOfTurn(t), HasText)
CallsOfTurn(t) == SelectSeq(PartsOfTurn(t), HasCall)
ResponsesOfTurn(t) == SelectSeq(PartsOfTurn(t), HasFunctionResponse)

\* the texts of ps, a line feed between two of them
RECURSIVE ExpectedJoin(_)
ExpectedJoin(ps) ==
  IF Len(ps) = 1 THEN Get(ps[1].text)
  ELSE ExpectedJoin(SubSeq(ps, 1, Len(ps) - 1)) \o <<"\n">> \o Get(ps[Len(ps)].text)

\* JSON.stringify(o ?? {}) for the objects the requests carry
ExpectedStringify(o) ==
  LET keys == IF IsSome(o) THEN Get(o).obj ELSE <<>>
  IN  CASE Len(keys) = 0 -> <<"{", "}">>
        [] Len(keys) = 1 -> <<"{", keys[1], "}">>
        [] Len(keys) = 2 -> <<"{", keys[1], ",", keys[2], "}">>

\* how many messages the claims give a turn
ExpectedCount(t) ==
  IF t.role = "user"
  THEN (IF TextsOfTurn(t) # <<>> THEN 1 ELSE 0) + Len(ResponsesOfTurn(t))
  ELSE IF t.role = "model"
  THEN (IF TextsOfTurn(t) # <<>> \/ CallsOfTurn(t) # <<>> THEN 1 ELSE 0)
  ELSE 0

SystemCount == IF Msgs # <<>> /\ Msgs[1].role = "system" THEN 1 ELSE 0

\* the number of messages before those of turn i
RECURSIVE Offset(_)
Offset(i) == IF i = 1 THEN SystemCount ELSE Offset(i - 1) + ExpectedCount(Turns[i - 1])

\* the messages of turn i
Segment(i) == SubSeq(Msgs, Offset(i) + 1, Offset(i) + ExpectedCount(Turns[i]))

WithRole(role) == {k \in 1..Len(Msgs) : Msgs[k].role = role}

\* C9: for every turn with role "model" and at least one part convertRequest
\* emits exactly one assistant message if the turn has a non-empty text part
\* or a functionCall part, and none otherwise; its content is the joined text,
\* or null when the turn has no text; tool_calls is present exactly when the
\* turn has a functionCall, with one entry per call in part order, arguments
\* being JSON.stringify(args ?? {}).
C9_ModelTurn ==
  RequestConverted =>
    /\ Len(Msgs) = Offset(Len(Turns) + 1)
    /\ Cardinality(WithRole("assistant")) =
         Cardinality({i \in 1..Len(Turns) :
                        /\ Turns[i].role = "model"
                        /\ TextsOfTurn(Turns[i]) # <<>> \/ CallsOfTurn(Turns[i]) # <<>>})
    /\ \A i \in 1..Len(Turns) :
         LET t     == Turns[i]
             seg   == Segment(i)
             calls == CallsOfTurn(t)
         IN  (t.role = "model" /\ Len(PartsOfTurn(t)) >= 1 /\ Len(seg) = 1) =>
               /\ seg[1].role = "assistant"
               /\ seg[1].content =
                    (IF TextsOfTurn(t) # <<>> THEN Some(ExpectedJoin(TextsOfTurn(t)))
                     ELSE None)
               /\ ("tool_calls" \in DOMAIN seg[1]) <=> (calls # <<>>)
               /\ "tool_calls" \in DOMAIN seg[1] =>
                    /\ Len(seg[1].tool_calls) = Len(calls)
                    /\ \A k \in 1..Len(calls) :
                         LET fc == Get(calls[k].functionCall)
                             tc == seg[1].tool_calls[k]
                         IN  /\ tc.type = "function"
                             /\ IsSome(fc.id) => tc.id = Get(fc.id)
                             /\ tc.function.name =
                                  (IF IsSome(fc.name) THEN Get(fc.name) ELSE <<>>)
                             /\ tc.function.arguments = ExpectedStringify(fc.args)

\* a model turn of two function calls and no text became one assistant
\* message with null content
C9_Witness ==
  /\ RequestConverted
  /\ Len(Turns) = 1
  /\ Turns[1].role = "model"
  /\ TextsOfTurn(Turns[1]) = <<>>
  /\ Len(CallsOfTurn(Turns[1])) = 2
  /\ ~IsSome(Get(CallsOfTurn(Turns[1])[2].functionCall).args)
  /\ Len(Msgs) = 2
  /\ Msgs[2].content = None
  /\ Len(Msgs[2].tool_calls) = 2
  /\ Msgs[2].tool_calls[2].function.arguments = <<"{", "}">>

\* C10: for every turn with role "user" convertRequest emits at most one user
\* message, holding the joined text and omitted when the turn has no text,
\* followed by exactly one tool message per functionResponse part in part
\* order, with tool_call_id the response's id ("" when missing) and content
\* the stringified payload; a function response is never merged into the
\* user message.
C10_UserTurn ==
  RequestConverted =>
    /\ Len(Msgs) = Offset(Len(Turns) + 1)
    /\ Cardinality(WithRole("user")) =
         Cardinality({i \in 1..Len(Turns) :
                        Turns[i].role = "user" /\ TextsOfTurn(Turns[i]) # <<>>})
    /\ \A i \in 1..Len(Turns) :
         LET t         == Turns[i]
             seg       == Segment(i)
             responses == ResponsesOfTurn(t)
             off       == IF TextsOfTurn(t) # <<>> THEN 1 ELSE 0
         IN  t.role = "user" =>
               /\ Len(seg) = off + Len(responses)
               /\ off = 1 =>
                    seg[1] = [role |-> "user", content |-> ExpectedJoin(TextsOfTurn(t))]
               /\ \A k \in 1..Len(responses) :
                    LET fr == Get(responses[k].functionResponse)
                    IN  seg[off + k] =
                          [role         |-> "tool",
                           tool_call_id |-> IF IsSome(fr.id) THEN Get(fr.id) ELSE <<>>,
                           content      |-> ExpectedStringify(fr.response)]

\* a user turn with text and two function responses, one without id, became
\* a user message followed by two tool messages
C10_Witness ==
  /\ RequestConverted
  /\ Len(Turns) = 1
  /\ Turns[1].role = "user"
  /\ Len(TextsOfTurn(Turns[1])) = 1
  /\ Len(ResponsesOfTurn(Turns[1])) = 2
  /\ ~IsSome(Get(ResponsesOfTurn(Turns[1])[2].functionResponse).id)
  /\ Len(Msgs) = 4
  /\ Msgs[2].role = "user"
  /\ Msgs[3].role = "tool"
  /\ Msgs[4] = [role |-> "tool", tool_call_id |-> <<>>, content |-> <<"{", "}">>]

----------------------------------------------------------------------------
(* Claims about the text of a turn *)

HasTextField(p) == IsSome(p.text)

\* the parts of a turn that carry a text field, empty or not
TextFieldsOfTurn(t) == SelectSeq(PartsOfTurn(t), HasTextField)

\* the text of the first message of a segment equals txt
TextIs(seg, txt) ==
  /\ Len(seg) >= 1
  /\ \/ seg[1].role = "user" /\ seg[1].content = txt
     \/ seg[1].role = "assistant" /\ seg[1].content = Some(txt)

\* C11 (as claimed): for a user or model turn with N text parts the text of
\* the turn's message is the N part texts, empty ones included, joined by
\* "\n" in part order.
C11_AllTextPartsJoined ==
  RequestConverted =>
    \A i \in 1..Len(Turns) :
      (Turns[i].role \in {"user", "model"} /\ TextFieldsOfTurn(Turns[i]) # <<>>) =>
        TextIs(Segment(i), ExpectedJoin(TextFieldsOfTurn(Turns[i])))

\* C11 (amended): for a user or model turn with N >= 1 non-empty text parts
\* the text of the turn's message is those N texts joined by "\n" in part
\* order; a part whose text is the empty string adds nothing, no separator
\* either.
C11_TextPartsJoined ==
  RequestConverted =>
    \A i \in 1..Len(Turns) :
      (Turns[i].role \in {"user", "model"} /\ TextsOfTurn(Turns[i]) # <<>>) =>
        TextIs(Segment(i), ExpectedJoin(TextsOfTurn(Turns[i])))

\* a turn of the texts "a" and "b" became a message with content "a\nb"
C11_Witness ==
  /\ RequestConverted
  /\ Len(Turns) = 1
  /\ Turns[1].role = "model"
  /\ Len(TextsOfTurn(Turns[1])) = 2
  /\ Get(TextsOfTurn(Turns[1])[1].text) = <<"a">>
  /\ Get(TextsOfTurn(Turns[1])[2].text) = <<"b">>
  /\ Msgs[Len(Msgs)].content = Some(<<"a", "\n", "b">>)

----------------------------------------------------------------------------
(* Claims about the system instruction *)

\* the system instruction of the request converted, absent or present
SystemInstruction ==
  IF IsSome(input.config) THEN Get(input.config).systemInstruction ELSE None

\* the text the claim extracts from it: the string itself, or the non-empty
\* texts of a content object joined by "\n"; "" when there is none
ExpectedSystemText ==
  IF ~IsSome(SystemInstruction) THEN <<>>
  ELSE LET sys == Get(SystemInstruction)
       IN  IF "str" \in DOMAIN sys THEN sys.str
           ELSE IF "parts" \in DOMAIN sys /\ IsSome(sys.parts)
                   /\ SelectSeq(Get(sys.parts), HasText) # <<>>
           THEN ExpectedJoin(SelectSeq(Get(sys.parts), HasText))
           ELSE <<>>

\* C12: convertRequest emits at most one system message; it is present
\* exactly when the extracted system instruction is a non-empty string, and
\* then it is messages[0], carrying that string, before every message of the
\* turn list.
C12_SystemInstruction ==
  RequestConverted =>
    /\ Cardinality(WithRole("system")) = (IF ExpectedSystemText # <<>> THEN 1 ELSE 0)
    /\ ExpectedSystemText # <<>> =>
         Msgs[1] = [role |-> "system", content |-> ExpectedSystemText]
    /\ Len(Msgs) = Cardinality(WithRole("system")) + Offset(Len(Turns) + 1) - SystemCount
    /\ \A k \in 2..Len(Msgs) : Msgs[k].role \in {"user", "tool", "assistant"}

\* a content object with the texts "s", "" and "t" became the first message,
\* in front of the user message
C12_Witness ==
  /\ RequestConverted
  /\ IsSome(SystemInstruction)
  /\ "parts" \in DOMAIN Get(SystemInstruction)
  /\ Len(Msgs) = 2
  /\ Msgs[1] = [role |-> "system", content |-> <<"s", "\n", "t">>]
  /\ Msgs[2].role = "user"

----------------------------------------------------------------------------
(* Claims about the tool list *)

\* the tool groups of the request converted
ToolGroups ==
  IF IsSome(input.config) /\ IsSome(Get(input.config).tools)
  THEN Get(Get(input.config).tools) ELSE <<>>

\* the declarations a group exposes
DeclarationsOf(group) ==
  IF "functionDeclarations" \in DOMAIN group /\ IsSome(group.functionDeclarations)
  THEN Get(group.functionDeclarations) ELSE <<>>

\* the declarations of the first n groups, in group order then declaration order
RECURSIVE ExposedUpTo(_)
ExposedUpTo(n) ==
  IF n = 0 THEN <<>> ELSE ExposedUpTo(n - 1) \o DeclarationsOf(ToolGroups[n])

Exposed == ExposedUpTo(Len(ToolGroups))

\* C13: the tools result is undefined or a non-empty list, never an empty
\* one; it is undefined exactly when no tool group exposes a function
\* declaration; otherwise it holds one {type: "function"} entry per
\* declaration, in group order then declaration order, with the declaration's
\* name, description defaulting to "" and parameters defaulting to
\* {type: "object", properties: {}} when the declaration has no schema.
C13_ToolList ==
  RequestConverted =>
    /\ Res.tools # Some(<<>>)
    /\ (Res.tools = None) <=> (Exposed = <<>>)
    /\ IsSome(Res.tools) =>
         /\ Len(Get(Res.tools)) = Len(Exposed)
         /\ \A k \in 1..Len(Exposed) :
              LET tool == Get(Res.tools)[k]
                  fn   == Exposed[k]
              IN  /\ tool.type = "function"
                  /\ DOMAIN tool = {"type", "function"}
                  /\ tool.function.name = (IF IsSome(fn.name) THEN Get(fn.name) ELSE <<>>)
                  /\ tool.function.description =
                       (IF IsSome(fn.description) THEN Get(fn.description) ELSE <<>>)
                  /\ fn.parameters = [t |-> "undefined"] =>
                       tool.function.parameters =
                         [t |-> "object",
                          entries |-> <<[k |-> "type",
                                         v |-> [t |-> "string", v |-> <<"o", "b">>]],
                                        [k |-> "properties",
                                         v |-> [t |-> "object", entries |-> <<>>]]>>]

\* a group without declarations followed by a group of two: two tools, the
\* first with the default description and parameters
C13_Witness ==
  /\ RequestConverted
  /\ Len(ToolGroups) = 2
  /\ DeclarationsOf(ToolGroups[1]) = <<>>
  /\ Len(DeclarationsOf(ToolGroups[2])) = 2
  /\ IsSome(Res.tools)
  /\ Len(Get(Res.tools)) = 2
  /\ Get(Res.tools)[1].function.name = <<"g">>
  /\ Get(Res.tools)[1].function.description = <<>>
  /\ Get(Res.tools)[2].function.name = <<"f">>

\* groups that expose nothing give no tools at all
C13_WitnessNone ==
  /\ RequestConverted
  /\ Len(ToolGroups) = 2
  /\ Exposed = <<>>
  /\ Res.tools = None

----------------------------------------------------------------------------
(* Claims about schema normalization *)

\* upper-case letters and their lower-case forms
LetterCases == {<<"O", "o">>, <<"B", "b">>, <<"S", "s">>}

Lowered(s) ==
  [i \in 1..Len(s) |->
     IF \E p \in LetterCases : p[1] = s[i]
     THEN (CHOOSE p \in LetterCases : p[1] = s[i])[2]
     ELSE s[i]]

\* out is the object schema in, normalized as claimed: the same keys in the
\* same order, the string value of a key "type" lowercased, a nested
\* non-array object normalized the same way, anything else unchanged
RECURSIVE IsNormalized(_, _)
IsNormalized(in, out) ==
  /\ out.t = "object"
  /\ Len(out.entries) = Len(in.entries)
  /\ \A i \in 1..Len(in.entries) :
       LET e == in.entries[i]
           o == out.entries[i]
       IN  /\ o.k = e.k
           /\ IF e.k = "type" /\ e.v.t = "string"
              THEN o.v = [t |-> "string", v |-> Lowered(e.v.v)]
              ELSE IF e.v.t = "object" THEN IsNormalized(e.v, o.v)
              ELSE o.v = e.v

\* the parameters emitted for the k-th declaration
Emitted(k) == Get(Res.tools)[k].function.parameters

\* C14: for a schema tree given as a declaration's parameters the emitted
\* parameters have the same keys and nesting, every string value of a key
\* "type" reachable through nested non-array objects is lowercased, and every
\* array (with all it holds) and every other scalar is unchanged.
C14_SchemaNormalization ==
  RequestConverted =>
    \A k \in 1..Len(Exposed) :
      Exposed[k].parameters.t = "object" =>
        /\ IsSome(Res.tools)
        /\ Len(Get(Res.tools)) = Len(Exposed)
        /\ IsNormalized(Exposed[k].parameters, Emitted(k))

\* a schema with a "type" two objects deep and an array beside it: the
\* first is lowercased, the second kept
C14_Witness ==
  /\ RequestConverted
  /\ Len(Exposed) = 1
  /\ Exposed[1].parameters.t = "object"
  /\ Len(Exposed[1].parameters.entries) = 2
  /\ Exposed[1].parameters.entries[2].v.entries[1].v.entries[1].v.v = <<"S">>
  /\ Emitted(1).entries[1].v.v = <<"o", "b">>
  /\ Emitted(1).entries[2].v.entries[1].v.entries[1].v.v = <<"s">>
  /\ Emitted(1).entries[2].v.entries[2].v = [t |-> "array", items |-> <<[t |-> "string", v |-> <<"S">>]>>]

\* C15: normalizeSchema(normalizeSchema(s)) = normalizeSchema(s) for every
\* schema s a declaration carries and for what was emitted for it, also for
\* a non-object s, where both sides are undefined.
C15_Idempotence ==
  RequestConverted =>
    \A k \in 1..Len(Exposed) :
      LET s == Exposed[k].parameters
      IN  /\ NormalizeSchema(NormalizeSchema(s)) = NormalizeSchema(s)
          /\ s.t \in {"object", "array"} =>
               /\ Emitted(k) = NormalizeSchema(s)
               /\ NormalizeSchema(Emitted(k)) = Emitted(k)
          /\ s.t \notin {"object", "array"} =>
               /\ NormalizeSchema(s) = [t |-> "undefined"]
               /\ NormalizeSchema(NormalizeSchema(s)) = [t |-> "undefined"]

\* a schema with upper-case types was normalized: what was emitted differs
\* from it and normalizes to itself
C15_Witness ==
  /\ RequestConverted
  /\ Len(Exposed) = 1
  /\ Exposed[1].parameters.t = "object"
  /\ Emitted(1) # Exposed[1].parameters
  /\ NormalizeSchema(Emitted(1)) = Emitted(1)
  /\ \E i \in 1..Len(Emitted(1).entries) :
       Emitted(1).entries[i].k = "items"

----------------------------------------------------------------------------
(* Claims about turns that give no message *)

\* a sequence without its elements from..to
Without(seq, from, to) == SubSeq(seq, 1, from - 1) \o SubSeq(seq, to + 1, Len(seq))

\* the request converted, turn i left out
RequestWithout(i) == [input EXCEPT !.contents = Some(Without(Turns, i, i))]

\* the clock readings of the conversion, those turn i consumed left out
ClockWithout(i) ==
  Without(clock,
          DateNowCalls(SubSeq(Turns, 1, i - 1)) + 1,
          DateNowCalls(SubSeq(Turns, 1, i)))

\* C16: a turn whose role is neither "user" nor "model", and a turn with no
\* parts, contributes no message and fails nothing: the conversion returns,
\* the turn's segment is empty, and the messages are those of the request
\* without that turn.
C16_UnknownRole ==
  RequestConverted =>
    \A i \in 1..Len(Turns) :
      (Turns[i].role \notin {"user", "model"} \/ PartsOfTurn(Turns[i]) = <<>>) =>
        /\ Len(Msgs) = Offset(Len(Turns) + 1)
        /\ Segment(i) = <<>>
        /\ Msgs = ConvertRequest(RequestWithout(i), ClockWithout(i)).messages

\* a turn of role "function" that carries text and a call, in front of a
\* model turn: only the model turn's message is there
C16_Witness ==
  /\ RequestConverted
  /\ Len(Turns) = 2
  /\ Turns[1].role = "function"
  /\ TextsOfTurn(Turns[1]) # <<>>
  /\ CallsOfTurn(Turns[1]) # <<>>
  /\ Turns[2].role = "model"
  /\ Len(Msgs) = 1
  /\ Msgs[1].role = "assistant"

----------------------------------------------------------------------------
(* Claims about the tool-use blocks of dialect B *)

StartedIndexes(f) == {i \in Indexes : f[i].started}

\* the slot map m holds exactly the blocks of f
BlocksHold(m, f) ==
  /\ \A k \in 1..Len(m) : m[k].k \in StartedIndexes(f)
  /\ \A i \in StartedIndexes(f) :
       /\ MapHas(m, i)
       /\ MapGet(m, i) = [id |-> f[i].id, name |-> f[i].name, input |-> f[i].arguments]

\* the function-call parts are those of the named blocks of f
BlocksMatch(parts, f) ==
  /\ Len(CallsOf(parts)) = Cardinality({i \in StartedIndexes(f) : f[i].name # <<>>})
  /\ \A i \in StartedIndexes(f) :
       f[i].name # <<>> =>
         \E k \in 1..Len(parts) :
           /\ IsCallPart(parts[k])
           /\ parts[k].functionCall =
                [id |-> f[i].id, name |-> f[i].name, args |-> ExpectedArgs(f[i].arguments)]

\* C17: a content_block_start of a tool_use block at index i creates slot i
\* with the block's id and name and an empty input; an input_json_delta of
\* index i appends its partial_json to slot i, changes nothing else and
\* returns isComplete = false without a response; at message_stop the args of
\* the part of slot i are parsed from the concatenation, in arrival order, of
\* the fragments the index received, whatever was interleaved.
C17_ToolUseReassembly ==
  dialect = "B" =>
    /\ (Called /\ ~TurnOver) => BlocksHold(acc.toolUses, fed)
    /\ (Called /\ IsFinal(Res)) => BlocksMatch(PartsOf(Res.response), fed)
    /\ \A event \in Events :
         LET r == ConvertAnthropicStreamEvent(event, acc)
             i == event.index
         IN  /\ (event.type = "content_block_start" /\ event.content_block.type = "tool_use") =>
                  /\ MapHas(r.acc.toolUses, i)
                  /\ MapGet(r.acc.toolUses, i) =
                       [id |-> event.content_block.id, name |-> event.content_block.name,
                        input |-> <<>>]
                  /\ \A j \in Indexes \ {i} :
                       /\ MapHas(r.acc.toolUses, j) <=> MapHas(acc.toolUses, j)
                       /\ MapHas(acc.toolUses, j) =>
                            MapGet(r.acc.toolUses, j) = MapGet(acc.toolUses, j)
                  /\ r.result = [isComplete |-> FALSE]
             /\ (event.type = "content_block_delta" /\ event.delta.type = "input_json_delta") =>
                  /\ r.result = [isComplete |-> FALSE]
                  /\ r.acc.text = acc.text
                  /\ MapHas(acc.toolUses, i) =>
                       r.acc.toolUses =
                         MapSet(acc.toolUses, i,
                                [id    |-> MapGet(acc.toolUses, i).id,
                                 name  |-> MapGet(acc.toolUses, i).name,
                                 input |-> MapGet(acc.toolUses, i).input
                                           \o event.delta.partial_json])

\* the fragments "1" and "1" of block 0 gave the part of block 0 the number 11
C17_Witness ==
  /\ dialect = "B"
  /\ Called /\ IsFinal(Res)
  /\ fed[0].started
  /\ fed[0].name = <<"f">>
  /\ fed[0].arguments = <<"1", "1">>
  /\ PartsOf(Res.response) =
       <<[functionCall |-> [id |-> <<"x">>, name |-> <<"f">>, args |-> [num |-> <<"1", "1">>]]]>>

----------------------------------------------------------------------------
(* Claims about reusing an accumulator *)

\* the accumulator a new streaming call of this dialect creates
FreshAccumulator ==
  IF dialect = "A" THEN [text |-> <<>>, toolCalls |-> <<>>]
  ELSE [text |-> <<>>, toolUses |-> <<>>, currentBlockIndex |-> -1]

\* C18: in both dialects, after a call that returned isComplete = true the
\* accumulator equals a newly created one (text "", no slot, and
\* currentBlockIndex -1 in dialect B), so that every fragment processed next
\* gives the result and the accumulator it gives on a new accumulator.
C18_RestartAfterCompletion ==
  (dialect \in {"A", "B"} /\ Called /\ Res.isComplete) =>
    /\ acc = FreshAccumulator
    /\ dialect = "A" =>
         /\ acc = CreateStreamAccumulator
         /\ \A chunk \in Chunks :
              ConvertStreamChunk(chunk, acc) =
                ConvertStreamChunk(chunk, [text |-> <<>>, toolCalls |-> <<>>])
    /\ dialect = "B" =>
         /\ acc = CreateAnthropicStreamAccumulator
         /\ \A event \in Events :
              ConvertAnthropicStreamEvent(event, acc) =
                ConvertAnthropicStreamEvent(
                  event, [text |-> <<>>, toolUses |-> <<>>, currentBlockIndex |-> -1])

\* a turn of dialect B that held text and a tool-use block has completed
C18_Witness ==
  /\ dialect = "B"
  /\ Called /\ Res.isComplete
  /\ emitted # <<>>
  /\ fed[1].started
  /\ Len(PartsOf(Res.response)) = 2
  /\ acc.currentBlockIndex = -1
  /\ acc.text = <<>>

----------------------------------------------------------------------------
(* generateContentAsync: the generator of OpenAICompatibleLlm.  Several     *)
(* calls may be in flight at once; a call runs from one await or yield to   *)
(* the next in one step.                                                    *)

\* the code of an error with a numeric status: `API_ERROR_${status}`
ApiErrorCode(status) ==
  CASE status = 429 -> "API_ERROR_429"
    [] status = 500 -> "API_ERROR_500"

\* the code of any other error: `${prefix}_ERROR`
ProviderErrorCode(prefix) ==
  CASE prefix = "OPENAI" -> "OPENAI_ERROR"
    [] prefix = "XAI"    -> "XAI_ERROR"

\* String(error)
StringOf(error) ==
  CASE error.type = "null"   -> "null"
    [] error.type = "string" -> error.value
    [] error.type = "object" -> "[object Object]"
    [] error.type = "Error"  -> error.message

\* error !== null && typeof error === "object" && "status" in error &&
\* typeof error.status === "number"
IsApiError(error) ==
  /\ error.type \in {"object", "Error"}
  /\ "status" \in DOMAIN error
  /\ "num" \in DOMAIN error.status

CreateErrorResponse_NoStatus(error, prefix) ==
  [errorCode    |-> ProviderErrorCode(prefix),
   errorMessage |-> IF error.type = "Error" THEN error.message ELSE StringOf(error),
   turnComplete |-> TRUE]

CreateErrorResponse(error, prefix) ==
  [errorCode    |-> IF IsApiError(error) THEN ApiErrorCode(error.status.num)
                    ELSE ProviderErrorCode(prefix),
   errorMessage |-> IF error.type = "Error" THEN error.message ELSE StringOf(error),
   turnComplete |-> TRUE]

\* Bound: the chunks one call pulls from its upstream.
MaxChunks == 2

CallIds == {1, 2}

Prefixes == {"OPENAI", "XAI"}

\* what may be thrown: null, a string, an Error, an Error with a numeric
\* status, an Error whose status is a string, a plain object with a status
Errors ==
  {[type |-> "null"],
   [type |-> "string", value |-> "timeout"],
   [type |-> "Error", message |-> "boom"],
   [type |-> "Error", message |-> "rate limited", status |-> [num |-> 429]],
   [type |-> "Error", message |-> "bad gateway", status |-> [str |-> "500"]],
   [type |-> "object", status |-> [num |-> 500]]}

\* the chunks an upstream delivers: text, a tool-call fragment, a finish, and
\* a finish that carries text
UpstreamChunks ==
  {Chunk(Some(<<"a">>), None, None),
   Chunk(None, Some(<<Frag(Some(0), Some(<<"x">>), Some(<<"f">>), Some(<<"1">>))>>), None),
   Chunk(None, None, Some("stop")),
   Chunk(Some(<<"b">>), None, Some("stop"))}

\* the responses a non-streaming request returns
UpstreamResponses ==
  {[choices |-> <<>>, usage |-> None],
   [choices |-> <<[message |-> [role |-> "assistant", content |-> Some(<<"a">>),
                                tool_calls |-> None]]>>,
    usage   |-> None]}

\* a call that has not run yet
NewCall(stream) ==
  [stream |-> stream, pc |-> "start", acc |-> None, pulled |-> <<>>,
   yielded |-> <<>>, raised |-> None]

\* the call whose accumulator a call uses: its own, a local of streamResponse
AccOwner_Shared(c) == 1

AccOwner(c) == c

InitGenerator ==
  /\ dialect = "generator"
  /\ input \in Prefixes
  /\ inflight \in [CallIds -> {NewCall(stream) : stream \in BOOLEAN}]
  /\ acc = None
  /\ result = None
  /\ lastFinish = FALSE
  /\ emitted = <<>>
  /\ fed = NoneFed
  /\ clock = <<>>
  /\ registration = <<>>

\* convertRequest returned; the request is sent and the call awaits the client
RequestSent(c) ==
  /\ inflight[c].pc = "start"
  /\ inflight' = [inflight EXCEPT ![c].pc = "awaiting"]
  /\ UNCHANGED <<dialect, acc, result, lastFinish, emitted, fed, input, clock, registration>>

\* catch (error) { yield this.createErrorResponse(error, this.getErrorPrefix()) }:
\* convertRequest, the client or the upstream iteration has thrown
Raise(c) ==
  /\ inflight[c].pc \in {"start", "awaiting", "streaming"}
  /\ \E error \in Errors :
       inflight' = [inflight EXCEPT
                   ![c].pc = "done",
                   ![c].raised = Some([error |-> error, at |-> inflight[c].pc]),
                   ![c].yielded = Append(@, CreateErrorResponse(error, input))]
  /\ UNCHANGED <<dialect, acc, result, lastFinish, emitted, fed, input, clock, registration>>

\* yield await this.singleResponse(messages, tools)
SingleReturns(c) ==
  /\ inflight[c].pc = "awaiting"
  /\ ~inflight[c].stream
  /\ \E response \in UpstreamResponses :
       inflight' = [inflight EXCEPT ![c].pc = "done",
                              ![c].yielded = Append(@, ConvertResponse(response))]
  /\ UNCHANGED <<dialect, acc, result, lastFinish, emitted, fed, input, clock, registration>>

\* streamResponse: the client returned the stream; const acc = createStreamAccumulator()
StreamOpens(c) ==
  /\ inflight[c].pc = "awaiting"
  /\ inflight[c].stream
  /\ inflight' = [inflight EXCEPT ![c].pc = "streaming",
                            ![AccOwner(c)].acc = Some(CreateStreamAccumulator)]
  /\ UNCHANGED <<dialect, acc, result, lastFinish, emitted, fed, input, clock, registration>>

\* an iteration that does not leave the loop on a completing chunk
ChunkArrives_NoBreak(c) ==
  /\ inflight[c].pc = "streaming"
  /\ Len(inflight[c].pulled) < MaxChunks
  /\ \E chunk \in UpstreamChunks :
       LET r == ConvertStreamChunk(chunk, Get(inflight[AccOwner(c)].acc))
       IN  inflight' = [inflight EXCEPT
                       ![c].pulled = Append(@, chunk),
                       ![c].yielded = IF HasResponse(r.result)
                                      THEN Append(@, r.result.response) ELSE @,
                       ![AccOwner(c)].acc = Some(r.acc)]
  /\ UNCHANGED <<dialect, acc, result, lastFinish, emitted, fed, input, clock, registration>>

\* one iteration of for await (const chunk of stream)
ChunkArrives(c) ==
  /\ inflight[c].pc = "streaming"
  /\ Len(inflight[c].pulled) < MaxChunks
  /\ \E chunk \in UpstreamChunks :
       LET r == ConvertStreamChunk(chunk, Get(inflight[AccOwner(c)].acc))
       IN  inflight' = [inflight EXCEPT
                       ![c].pulled = Append(@, chunk),
                       ![c].yielded = IF HasResponse(r.result)
                                      THEN Append(@, r.result.response) ELSE @,
                       ![c].pc = IF r.result.isComplete THEN "done" ELSE @,
                       ![AccOwner(c)].acc = Some(r.acc)]
  /\ UNCHANGED <<dialect, acc, result, lastFinish, emitted, fed, input, clock, registration>>

\* the upstream is exhausted: the loop ends
StreamEnds(c) ==
  /\ inflight[c].pc = "streaming"
  /\ inflight' = [inflight EXCEPT ![c].pc = "done"]
  /\ UNCHANGED <<dialect, acc, result, lastFinish, emitted, fed, input, clock, registration>>

NextGenerator ==
  \E c \in CallIds :
    \/ RequestSent(c)
    \/ Raise(c)
    \/ SingleReturns(c)
    \/ StreamOpens(c)
    \/ ChunkArrives(c)
    \/ StreamEnds(c)

SpecGenerator == InitGenerator /\ [][NextGenerator]_vars

----------------------------------------------------------------------------
(* Claims about concurrent streams and about errors *)

Generating == dialect = "generator"

\* what a stream alone gives: its chunks converted one after the other with an
\* accumulator of its own, up to the chunk that completes the turn
RECURSIVE AloneRun(_, _, _)
AloneRun(chunks, a, out) ==
  IF chunks = <<>> THEN [acc |-> a, yielded |-> out]
  ELSE LET r    == ConvertStreamChunk(Head(chunks), a)
           out1 == IF "response" \in DOMAIN r.result
                   THEN Append(out, r.result.response) ELSE out
       IN  IF r.result.isComplete THEN [acc |-> r.acc, yielded |-> out1]
           ELSE AloneRun(Tail(chunks), r.acc, out1)

Alone(c) == AloneRun(inflight[c].pulled, [text |-> <<>>, toolCalls |-> <<>>], <<>>)

\* the items call c yielded from its stream: all of them but the error response
StreamItems(c) ==
  IF IsSome(inflight[c].raised)
  THEN SubSeq(inflight[c].yielded, 1, Len(inflight[c].yielded) - 1)
  ELSE inflight[c].yielded

\* C19: every streaming call has an accumulator of its own, and under any
\* interleaving of the steps of two streams each stream has yielded the
\* results, and its accumulator holds the state, it gives when its chunks are
\* processed alone: no step of one stream changes the other.
C19_IndependentStreams ==
  Generating =>
    \A c \in CallIds :
      (inflight[c].stream /\ inflight[c].pc \in {"streaming", "done"}) =>
        /\ StreamItems(c) = Alone(c).yielded
        /\ IsSome(inflight[c].acc) => Get(inflight[c].acc) = Alone(c).acc
        /\ inflight[c].pc = "streaming" => IsSome(inflight[c].acc)

\* two streams, one that pulled text then a finish, one that pulled a
\* fragment then text, each with its own results
C19_Witness ==
  /\ Generating
  /\ inflight[1].stream /\ inflight[2].stream
  /\ Len(inflight[1].pulled) = 2 /\ Len(inflight[2].pulled) = 2
  /\ inflight[1].pc = "done" /\ inflight[2].pc = "streaming"
  /\ Len(inflight[1].yielded) = 2
  /\ inflight[1].yielded[2] = FinalResponse(<<TextPart(<<"a">>)>>)
  /\ Get(inflight[2].acc).text = <<"a">>
  /\ Len(Get(inflight[2].acc).toolCalls) = 1

\* the response the claim gives an error
ExpectedErrorResponse(error) ==
  [errorCode    |-> IF error.type \in {"object", "Error"} /\ "status" \in DOMAIN error
                       /\ "num" \in DOMAIN error.status
                    THEN (IF error.status.num = 429 THEN "API_ERROR_429" ELSE "API_ERROR_500")
                    ELSE (IF input = "OPENAI" THEN "OPENAI_ERROR" ELSE "XAI_ERROR"),
   errorMessage |-> CASE error.type = "Error"  -> error.message
                      [] error.type = "string" -> error.value
                      [] error.type = "null"   -> "null"
                      [] error.type = "object" -> "[object Object]",
   turnComplete |-> TRUE]

\* C20: when request conversion or the transport raises, before the first
\* chunk or in the middle of a stream, the generator finishes and its last
\* item is one response {errorCode, errorMessage, turnComplete: true}, with
\* errorCode "API_ERROR_<status>" if the error is a non-null object with a
\* numeric status and "<prefix>_ERROR" otherwise; no earlier item is an error.
C20_ErrorWrapping ==
  Generating =>
    \A c \in CallIds :
      IsSome(inflight[c].raised) =>
        LET items == inflight[c].yielded
        IN  /\ inflight[c].pc = "done"
            /\ Len(items) >= 1
            /\ items[Len(items)] = ExpectedErrorResponse(Get(inflight[c].raised).error)
            /\ DOMAIN items[Len(items)] = {"errorCode", "errorMessage", "turnComplete"}
            /\ \A k \in 1..(Len(items) - 1) : "errorCode" \notin DOMAIN items[k]

\* a stream that had yielded a partial response failed with an Error whose
\* status is a string: the last item carries the provider's code
C20_Witness ==
  /\ Generating
  /\ input = "XAI"
  /\ IsSome(inflight[1].raised)
  /\ Get(inflight[1].raised).at = "streaming"
  /\ "status" \in DOMAIN Get(inflight[1].raised).error
  /\ Len(inflight[1].yielded) = 2
  /\ "partial" \in DOMAIN inflight[1].yielded[1]
  /\ inflight[1].yielded[2].errorCode = "XAI_ERROR"
  /\ IsSome(inflight[2].raised)
  /\ Get(inflight[2].raised).at = "start"
  /\ inflight[2].yielded[1].errorCode = "API_ERROR_429"

(***************************************************************************)
(* Provider registration: providers/xai/register.ts,                       *)
(* providers/ai-gateway/register.ts, registerOpenAI in openai-llm.ts and   *)
(* registerOpenRouter.  Each module keeps its own `registered` flag; the   *)
(* provider configs, the console and ADK's LLMRegistry are shared.         *)
(***************************************************************************)
Providers == {"xai", "openai", "openrouter", "ai-gateway"}

\* the class a module hands to LLMRegistry.register
LlmClass(provider) ==
  CASE provider = "xai" -> "XAILlm"
    [] provider = "openai" -> "OpenAILlm"
    [] provider = "openrouter" -> "OpenRouterLlm"
    [] provider = "ai-gateway" -> "AIGatewayLlm"

\* the argument of console.warn on a repeated registration
AlreadyRegistered(provider) ==
  CASE provider = "xai" -> "[adk-llm-bridge] xAI already registered"
    [] provider = "openai" -> "[adk-llm-bridge] OpenAI already registered"
    [] provider = "openrouter" -> "[adk-llm-bridge] OpenRouter already registered"
    [] provider = "ai-gateway" -> "[adk-llm-bridge] AI Gateway already registered"

\* config: setProviderConfig(provider, options) stores the options of a provider
SetProviderConfig(providerConfigs, provider, options) ==
  [providerConfigs EXCEPT ![provider] = Some(options)]

\* config: resetProviderConfig(provider) removes them
ResetProviderConfig(providerConfigs, provider) ==
  [providerConfigs EXCEPT ![provider] = None]

\* config: getProviderConfig(provider); None is undefined
GetProviderConfig(providerConfigs, provider) == providerConfigs[provider]

\* the module state before any call
Unregistered ==
  [registered |-> [p \in Providers |-> FALSE],
   providerConfigs |-> [p \in Providers |-> None],
   warnings |-> <<>>,
   registry |-> <<>>]

\* a register function that stores the options of every call
Register_Overwrites(state, provider, options) ==
  LET configured ==
        IF IsSome(options)
        THEN [state EXCEPT !.providerConfigs =
                             SetProviderConfig(@, provider, Get(options))]
        ELSE state
  IN  IF state.registered[provider]
      THEN [configured EXCEPT !.warnings = Append(@, AlreadyRegistered(provider))]
      ELSE [configured EXCEPT !.registry = Append(@, LlmClass(provider)),
                              !.registered[provider] = TRUE]

\* registerXAI / registerOpenAI / registerOpenRouter / registerAIGateway
Register(state, provider, options) ==
  IF state.registered[provider]
  THEN [state EXCEPT !.warnings = Append(@, AlreadyRegistered(provider))]
  ELSE LET configured ==
             IF IsSome(options)
             THEN [state EXCEPT !.providerConfigs =
                                  SetProviderConfig(@, provider, Get(options))]
             ELSE state
       IN  [configured EXCEPT !.registry = Append(@, LlmClass(provider)),
                              !.registered[provider] = TRUE]

\* isXAIRegistered and its siblings
IsRegistered(state, provider) == state.registered[provider]

\* _resetXAIRegistration and its siblings
ResetRegistration(state, provider) ==
  [state EXCEPT !.registered[provider] = FALSE,
                !.providerConfigs = ResetProviderConfig(@, provider)]

\* the options a caller passes: none, or an object holding an apiKey
RegisterOptions == {None, Some([apiKey |-> "k1"]), Some([apiKey |-> "k2"])}

\* the number of register and reset calls of a behaviour
MaxRegisterCalls == 3

Count(seq, x) == Cardinality({i \in DOMAIN seq : seq[i] = x})

\* history: per provider, the options of the register calls since the module's
\* last reset, and how many warnings and registrations it had made by then
NoCalls ==
  [calls |-> [p \in Providers |-> <<>>],
   warned |-> [p \in Providers |-> 0],
   classes |-> [p \in Providers |-> 0],
   total |-> 0]

InitRegister ==
  /\ dialect = "register"
  /\ registration = Unregistered
  /\ fed = NoCalls
  /\ input = None
  /\ acc = None
  /\ result = None
  /\ lastFinish = FALSE
  /\ emitted = <<>>
  /\ clock = <<>>
  /\ inflight = <<>>

RegisterCall ==
  /\ dialect = "register"
  /\ fed.total < MaxRegisterCalls
  /\ \E provider \in Providers, options \in RegisterOptions :
       /\ registration' = Register(registration, provider, options)
       /\ fed' = [fed EXCEPT !.calls[provider] = Append(@, options),
                             !.total = @ + 1]
  /\ UNCHANGED <<dialect, acc, result, lastFinish, emitted, input, clock, inflight>>

ResetCall ==
  /\ dialect = "register"
  /\ fed.total < MaxRegisterCalls
  /\ \E provider \in Providers :
       /\ registration' = ResetRegistration(registration, provider)
       /\ fed' = [fed EXCEPT
                    !.calls[provider] = <<>>,
                    !.warned[provider] =
                       Count(registration.warnings, AlreadyRegistered(provider)),
                    !.classes[provider] =
                       Count(registration.registry, LlmClass(provider)),
                    !.total = @ + 1]
  /\ UNCHANGED <<dialect, acc, result, lastFinish, emitted, input, clock, inflight>>

NextRegister == RegisterCall \/ ResetCall

SpecRegister == InitRegister /\ [][NextRegister]_vars

\* C21: registration is idempotent.  Of the register calls a module has received
\* since its last reset only the first registers the class and stores its
\* options (undefined when it had none); each later one logs exactly one warning
\* and changes nothing else, so N calls leave N-1 warnings; and the module
\* reports itself registered exactly when it has received a register call since
\* its last reset.
C21_IdempotentRegistration ==
  dialect = "register" =>
    \A p \in Providers :
      LET n == Len(fed.calls[p])
      IN  /\ IsRegistered(registration, p) <=> n >= 1
          /\ n >= 1 =>
               /\ GetProviderConfig(registration.providerConfigs, p) = fed.calls[p][1]
               /\ Count(registration.warnings, AlreadyRegistered(p))
                    = fed.warned[p] + (n - 1)
               /\ Count(registration.registry, LlmClass(p)) = fed.classes[p] + 1
          /\ n = 0 =>
               /\ GetProviderConfig(registration.providerConfigs, p) = None
               /\ Count(registration.warnings, AlreadyRegistered(p)) = fed.warned[p]
               /\ Count(registration.registry, LlmClass(p)) = fed.classes[p]

\* three calls in a row, the first without options and a later one with options
C21_Witness ==
  /\ dialect = "register"
  /\ \E p \in Providers :
       /\ Len(fed.calls[p]) = 3
       /\ fed.calls[p][1] = None
       /\ fed.calls[p][2] # None
       /\ Len(registration.warnings) = 2

\* a module registered again after a reset, with other options than before
C21_WitnessReset ==
  /\ dialect = "register"
  /\ \E p \in Providers :
       /\ Len(fed.calls[p]) = 1
       /\ fed.classes[p] = 1
       /\ IsSome(fed.calls[p][1])

----------------------------------------------------------------------------
\* the final parts carry, for every named index that received an id, a
\* functionCall part with the index's name and the id ids[i]
CallsCarry(parts, f, ids) ==
  \A i \in NamedIndexes(f) :
    \E k \in 1..Len(parts) :
      /\ IsCallPart(parts[k])
      /\ parts[k].functionCall.name = f[i].name
      /\ parts[k].functionCall.id = ids[i]

\* C22 (as claimed): a slot's id is set once.  Once a fragment with a non-empty
\* id has been applied to the slot of index i, the slot keeps that first id for
\* the rest of the turn whatever ids later fragments carry, and the final
\* functionCall part carries it.
C22_IdSetOnce ==
  dialect = "A" =>
    /\ (Called /\ ~TurnOver) =>
         \A i \in Indexes : SlotAt(acc.toolCalls, i).id = fed[i].firstId
    /\ (Called /\ IsFinal(Res)) =>
         CallsCarry(PartsOf(Res.response), fed, [i \in Indexes |-> fed[i].firstId])

\* C22 (amended): a slot's id is the id of the last fragment applied to index i
\* that carried a non-empty id.  Later fragments without an id (or with an empty
\* one) leave it unchanged, a later fragment with a non-empty id replaces it,
\* and the final functionCall part carries the last id.
C22_IdLastWrite ==
  dialect = "A" =>
    /\ (Called /\ ~TurnOver) =>
         \A i \in Indexes : SlotAt(acc.toolCalls, i).id = fed[i].lastId
    /\ (Called /\ IsFinal(Res)) =>
         CallsCarry(PartsOf(Res.response), fed, [i \in Indexes |-> fed[i].lastId])

\* a turn that ended with a call whose index received two different ids
C22_Witness ==
  /\ dialect = "A"
  /\ Called /\ IsFinal(Res)
  /\ \E i \in Indexes :
       /\ fed[i].firstId = <<"x">>
       /\ fed[i].lastId = <<"y">>
       /\ Len(fed[i].name) > 0
       /\ Len(CallsOf(PartsOf(Res.response))) = 1

----------------------------------------------------------------------------
\* what the last chunk carried
LastContent == Get(input).content
LastFragments == Get(input).tool_calls

----------------------------------------------------------------------------
\* the last call was given a fragment that carries nothing: a chunk without
\* choices or with no delta content, no tool-call fragment and no
\* finish_reason; an event that is no content_block_start, content_block_delta
\* or message_stop
NoOpFragment ==
  /\ input # None
  /\ dialect = "A" => /\ LastContent = <<>>
                      /\ LastFragments = <<>>
                      /\ ~lastFinish
  /\ dialect = "B" =>
       Get(input).type \notin {"content_block_start", "content_block_delta",
                               "message_stop"}

\* C24: no-op fragments.  Such a call returns {isComplete: false} without a
\* response and changes neither the accumulated text nor any slot.
C24_NoOpFragments ==
  [][(dialect \in {"A", "B"} /\ NoOpFragment') =>
       /\ result' = Some([isComplete |-> FALSE])
       /\ acc'.text = acc.text
       /\ AccSlots' = AccSlots]_vars

\* a chunk that carries nothing was converted in the middle of a turn
C24_Witness ==
  /\ dialect = "A"
  /\ NoOpFragment
  /\ acc.text = <<"a">>
  /\ Len(acc.toolCalls) = 1

\* an event of another type was converted in the middle of a turn
C24_WitnessEvent ==
  /\ dialect = "B"
  /\ NoOpFragment
  /\ Get(input).type = "content_block_stop"
  /\ acc.text = <<"a">>
  /\ Len(acc.toolUses) = 1

----------------------------------------------------------------------------
\* the indexes that received a fragment (dialect A) or started a tool_use block
\* (dialect B) in this turn, in the order they first did
CreationOrder ==
  [k \in 1..(NextRank(fed) - 1) |-> CHOOSE i \in Indexes : fed[i].rank = k]

\* the turn's slots in that order, as the history has them
HistorySlots ==
  [k \in 1..Len(CreationOrder) |->
     LET i == CreationOrder[k]
     IN  [id |-> IF dialect = "A" THEN fed[i].lastId ELSE fed[i].id,
          name |-> fed[i].name,
          arguments |-> fed[i].arguments]]

\* C25: order of the final parts.  In both dialects the final response lists the
\* text part first, if there is text, and then the functionCall parts in the
\* order their slots were first created (not by ascending index), whenever the
\* tool-call fragments arrived relative to the text; slots with an empty name
\* yield no part, whatever id or arguments they hold.
C25_FinalPartsOrder ==
  (dialect \in {"A", "B"} /\ Called /\ IsFinal(Res)) =>
    PartsOf(Res.response) = ExpectedFinalParts(emitted, HistorySlots)

\* a turn whose block of index 1 started before its text and its block of
\* index 0 after it
C25_Witness ==
  /\ dialect = "B"
  /\ Called /\ IsFinal(Res)
  /\ CreationOrder = <<1, 0>>
  /\ Len(PartsOf(Res.response)) = 3
  /\ IsTextPart(PartsOf(Res.response)[1])
  /\ PartsOf(Res.response)[2].functionCall.name = fed[1].name
  /\ PartsOf(Res.response)[3].functionCall.name = fed[0].name
  /\ fed[0].name # fed[1].name

\* a turn of dialect A with a nameless slot created first
C25_WitnessNameless ==
  /\ dialect = "A"
  /\ Called /\ IsFinal(Res)
  /\ CreationOrder = <<1, 0>>
  /\ fed[1].name = <<>> /\ fed[1].lastId # <<>>
  /\ Len(PartsOf(Res.response)) = 1
  /\ PartsOf(Res.response)[1].functionCall.name = fed[0].name

----------------------------------------------------------------------------
HasNoId(p) == HasCall(p) /\ ~IsSome(Get(p.functionCall).id)

\* how many of the first n parts ps are function calls without an id
IdLessAmong(ps, n) == Len(SelectSeq(SubSeq(ps, 1, n), HasNoId))

\* how many clock readings the turns before turn i consumed
RECURSIVE ReadingsBefore(_)
ReadingsBefore(i) ==
  IF i = 1 THEN 0
  ELSE ReadingsBefore(i - 1)
       + IdLessAmong(PartsOfTurn(Turns[i - 1]), Len(PartsOfTurn(Turns[i - 1])))

\* the clock reading taken for the k-th function call of turn i, which has no id
ReadingFor(i, k) ==
  clock[ReadingsBefore(i) + IdLessAmong(CallsOfTurn(Turns[i]), k)]

\* C26: fallback call id.  In an assistant message a function call that has an
\* id keeps it verbatim and one without gets "call_" followed by the clock's
\* millisecond reading at that part; hence two id-less calls of one turn read
\* in the same millisecond carry the same id in one assistant message.
C26_FallbackCallId ==
  RequestConverted =>
    \A i \in 1..Len(Turns) :
      LET calls == CallsOfTurn(Turns[i])
          seg   == Segment(i)
      IN  (Turns[i].role = "model" /\ calls # <<>>) =>
            /\ Len(seg) = 1
            /\ Len(seg[1].tool_calls) = Len(calls)
            /\ \A k \in 1..Len(calls) :
                 seg[1].tool_calls[k].id =
                   (IF HasNoId(calls[k])
                    THEN <<"c", "a", "l", "l", "_", ToString(ReadingFor(i, k))>>
                    ELSE Get(Get(calls[k].functionCall).id))
            /\ \A k, l \in 1..Len(calls) :
                 (HasNoId(calls[k]) /\ HasNoId(calls[l])
                  /\ ReadingFor(i, k) = ReadingFor(i, l)) =>
                   seg[1].tool_calls[k].id = seg[1].tool_calls[l].id

\* two id-less calls of one model turn, read in the same millisecond, carry
\* the same id
C26_Witness ==
  /\ RequestConverted
  /\ Len(Turns) = 1
  /\ Turns[1].role = "model"
  /\ Len(CallsOfTurn(Turns[1])) = 2
  /\ HasNoId(CallsOfTurn(Turns[1])[1]) /\ HasNoId(CallsOfTurn(Turns[1])[2])
  /\ clock = <<2, 2>>
  /\ Segment(1)[1].tool_calls[1].id = <<"c", "a", "l", "l", "_", "2">>
  /\ Segment(1)[1].tool_calls[2].id = Segment(1)[1].tool_calls[1].id

\* an id-less call after an id-less call of an earlier turn takes the later
\* reading
C26_WitnessLater ==
  /\ RequestConverted
  /\ Len(Turns) = 2
  /\ Turns[1].role = "user" /\ Turns[2].role = "model"
  /\ clock = <<1, 2>>
  /\ Len(CallsOfTurn(Turns[2])) = 1
  /\ Segment(2)[1].tool_calls[1].id = <<"c", "a", "l", "l", "_", "2">>

----------------------------------------------------------------------------
IsTurnComplete(response) ==
  "turnComplete" \in DOMAIN response /\ response.turnComplete

IsPartialItem(response) == "partial" \in DOMAIN response /\ response.partial

\* the positions of the turnComplete responses among the items
Closings(items) == {k \in 1..Len(items) : IsTurnComplete(items[k])}

----------------------------------------------------------------------------
\* C28 (as claimed): every turn is closed.  A call that has finished, because
\* its transport call returned, its upstream ended or something failed, has
\* yielded exactly one response with turnComplete = true.
C28_EveryTurnClosed ==
  Generating =>
    \A c \in CallIds :
      inflight[c].pc = "done" => Cardinality(Closings(inflight[c].yielded)) = 1

\* a stream whose upstream delivered a chunk with a finish_reason has finished
\* without a turnComplete response
C28_Unclosed ==
  /\ Generating
  /\ inflight[1].pc = "done"
  /\ inflight[1].stream
  /\ \E k \in 1..Len(inflight[1].pulled) : HasFinish(inflight[1].pulled[k])
  /\ Closings(inflight[1].yielded) = {}

----------------------------------------------------------------------------
\* a part that does not fit the role: a functionCall in a user turn, a
\* functionResponse in a model turn
Misfit(role, p) ==
  \/ role = "user" /\ HasCall(p)
  \/ role = "model" /\ HasFunctionResponse(p)

\* a part that holds nothing else
OnlyMisfit(role, p) ==
  /\ Misfit(role, p)
  /\ ~IsSome(p.text)
  /\ role = "user" => ~HasFunctionResponse(p)
  /\ role = "model" => ~HasCall(p)

\* the turn with the fields that do not fit its role taken out of its parts
StrippedTurn(t) ==
  [t EXCEPT !.parts =
     Some([k \in 1..Len(PartsOfTurn(t)) |->
             IF t.role = "user"
             THEN [PartsOfTurn(t)[k] EXCEPT !.functionCall = None]
             ELSE [PartsOfTurn(t)[k] EXCEPT !.functionResponse = None]])]

RequestStripped(i) ==
  [input EXCEPT !.contents = Some([Turns EXCEPT ![i] = StrippedTurn(Turns[i])])]

\* the function calls of a user turn consume no clock reading once taken out
ClockStripped(i) == IF Turns[i].role = "user" THEN ClockWithout(i) ELSE clock

\* the tool-call entries of all messages, and the tool messages
ToolCallCount ==
  SumLen([k \in 1..Len(Msgs) |->
            IF "tool_calls" \in DOMAIN Msgs[k] THEN Msgs[k].tool_calls ELSE <<>>])

RoleCount(role, select(_)) ==
  SumLen([i \in 1..Len(Turns) |->
            IF Turns[i].role = role THEN select(Turns[i]) ELSE <<>>])

\* C29: parts that do not fit the turn's role are dropped without error.  The
\* function calls of user turns and the function responses of model turns show
\* in no message: the messages are those of the request without them, every
\* tool call stems from a model turn and every tool message from a user turn;
\* a user turn of function calls only, and a model turn of function responses
\* only, give no message and leave the messages of the other turns as they are.
C29_MisfitPartsDropped ==
  RequestConverted =>
    /\ ToolCallCount = RoleCount("model", CallsOfTurn)
    /\ Cardinality(WithRole("tool")) = RoleCount("user", ResponsesOfTurn)
    /\ \A i \in 1..Len(Turns) :
         LET t == Turns[i]
         IN  (\E k \in 1..Len(PartsOfTurn(t)) : Misfit(t.role, PartsOfTurn(t)[k])) =>
               /\ \A k \in 1..Len(Segment(i)) :
                    /\ t.role = "user" => "tool_calls" \notin DOMAIN Segment(i)[k]
                    /\ t.role = "model" => Segment(i)[k].role # "tool"
               /\ Msgs = ConvertRequest(RequestStripped(i), ClockStripped(i)).messages
               /\ (\A k \in 1..Len(PartsOfTurn(t)) : OnlyMisfit(t.role, PartsOfTurn(t)[k])) =>
                    /\ Segment(i) = <<>>
                    /\ Msgs = ConvertRequest(RequestWithout(i), ClockWithout(i)).messages

\* a user turn of one function call without id, then a model turn with such a
\* call: one assistant message, its id from the second clock reading
C29_Witness ==
  /\ RequestConverted
  /\ Len(Turns) = 2
  /\ Turns[1].role = "user" /\ Turns[2].role = "model"
  /\ Len(PartsOfTurn(Turns[1])) = 1
  /\ OnlyMisfit("user", PartsOfTurn(Turns[1])[1])
  /\ clock = <<1, 2>>
  /\ SystemCount = 0
  /\ Len(Msgs) = 1
  /\ Msgs[1].role = "assistant"
  /\ Msgs[1].tool_calls[1].id = <<"c", "a", "l", "l", "_", "2">>

\* a model turn of one function response only, after a user turn with text
C29_WitnessModel ==
  /\ RequestConverted
  /\ Len(Turns) = 2
  /\ Turns[1].role = "user" /\ Turns[2].role = "model"
  /\ Len(PartsOfTurn(Turns[2])) = 1
  /\ OnlyMisfit("model", PartsOfTurn(Turns[2])[1])
  /\ SystemCount = 0
  /\ Len(Msgs) = 1
  /\ Msgs[1].role = "user"

----------------------------------------------------------------------------
(* Dialect B, single-shot: convertAnthropicResponse, and the event stream   *)
(* the vendor sends for the same message.                                  *)

\* usageMetadata: message.usage ? { ... } : undefined
AnthropicUsageMetadata(usage) ==
  IF IsSome(usage)
  THEN Some([promptTokenCount     |-> Get(usage).input_tokens,
             candidatesTokenCount |-> Get(usage).output_tokens,
             totalTokenCount      |-> Get(usage).input_tokens + Get(usage).output_tokens])
  ELSE None

\* for (const block of message.content) { ... }
RECURSIVE BlockParts(_)
BlockParts(content) ==
  IF content = <<>> THEN <<>>
  ELSE LET block == Head(content)
       IN  (IF block.type = "text" THEN <<TextPart(block.text)>> ELSE <<>>)
           \o (IF block.type = "tool_use"
               THEN <<FunctionCallPart(block.id, block.name, block.input)>>
               ELSE <<>>)
           \o BlockParts(Tail(content))

\* a conversion that loses the input of a tool_use block
ConvertAnthropicResponse_NoInput(message) ==
  [content       |-> ContentOf([k \in 1..Len(BlockParts(message.content)) |->
                                  IF IsCallPart(BlockParts(message.content)[k])
                                  THEN [BlockParts(message.content)[k]
                                          EXCEPT !.functionCall.args = EmptyObject]
                                  ELSE BlockParts(message.content)[k]]),
   turnComplete  |-> TRUE,
   usageMetadata |-> AnthropicUsageMetadata(message.usage)]

ConvertAnthropicResponse(message) ==
  [content       |-> ContentOf(BlockParts(message.content)),
   turnComplete  |-> TRUE,
   usageMetadata |-> AnthropicUsageMetadata(message.usage)]

\* Bound: the content blocks of one message.
MaxBlocks == 2

MessageBlocks ==
  {[type |-> "text", text |-> t] : t \in {<<>>, <<"a">>, <<"a", "b">>}}
  \cup {[type |-> "tool_use", id |-> <<"x">>, name |-> <<"f">>, input |-> EmptyObject],
        [type |-> "tool_use", id |-> <<"y">>, name |-> <<"g">>, input |-> [obj |-> <<"k">>]],
        [type |-> "tool_use", id |-> <<"x">>, name |-> <<>>, input |-> EmptyObject]}

AnthropicUsages == {None, Some([input_tokens |-> 1, output_tokens |-> 2])}

AnthropicMessages ==
  {[content |-> c, usage |-> u] :
     c \in UNION {[1..n -> MessageBlocks] : n \in 0..MaxBlocks}, u \in AnthropicUsages}

\* the ways the vendor cuts a string into deltas: in one piece, or one
\* character (one JSON token) at a time
Pieces(str) == {<<str>>, [k \in 1..Len(str) |-> <<str[k]>>]}

\* the events of one block: its start, its deltas, its stop
BlockEvents(block, index, pieces) ==
  <<[type |-> "content_block_start", index |-> index,
     content_block |-> IF block.type = "text"
                       THEN [type |-> "text", text |-> <<>>]
                       ELSE [type |-> "tool_use", id |-> block.id, name |-> block.name,
                             input |-> EmptyObject]]>>
  \o [k \in 1..Len(pieces) |->
        [type |-> "content_block_delta", index |-> index,
         delta |-> IF block.type = "text"
                   THEN [type |-> "text_delta", text |-> pieces[k]]
                   ELSE [type |-> "input_json_delta", partial_json |-> pieces[k]]]]
  \o <<[type |-> "content_block_stop", index |-> index]>>

RECURSIVE BlockStreams(_, _)
BlockStreams(content, index) ==
  IF content = <<>> THEN {<<>>}
  ELSE LET block == Head(content)
           str   == IF block.type = "text" THEN block.text ELSE JsonStringify(block.input)
       IN  {BlockEvents(block, index, pieces) \o rest :
              pieces \in Pieces(str), rest \in BlockStreams(Tail(content), index + 1)}

\* the event streams of a message
EventStreams(message) ==
  {<<[type |-> "message_start"]>> \o blocks
   \o <<[type |-> "message_delta"], [type |-> "message_stop"]>> :
     blocks \in BlockStreams(message.content, 0)}

\* a message, converted in one piece and streamed into a fresh accumulator
InitMessage ==
  /\ dialect = "message"
  /\ input \in AnthropicMessages
  /\ inflight \in {[events |-> s, single |-> None] : s \in EventStreams(input)}
  /\ acc = CreateAnthropicStreamAccumulator
  /\ result = None
  /\ lastFinish = FALSE
  /\ emitted = <<>>
  /\ fed = NoneStarted
  /\ clock = <<>>
  /\ registration = <<>>

\* convertAnthropicStreamEvent(event, acc) for the next event of the stream
MessageEvent ==
  /\ dialect = "message"
  /\ inflight.events # <<>>
  /\ LET event == Head(inflight.events)
         r     == ConvertAnthropicStreamEvent(event, acc)
     IN  /\ acc' = r.acc
         /\ result' = Some(r.result)
         /\ lastFinish' = (event.type = "message_stop")
  /\ inflight' = [inflight EXCEPT !.events = Tail(@)]
  /\ UNCHANGED <<dialect, emitted, fed, input, clock, registration>>

\* convertAnthropicResponse(message)
MessageConverted ==
  /\ dialect = "message"
  /\ inflight.single = None
  /\ inflight' = [inflight EXCEPT !.single = Some(ConvertAnthropicResponse(input))]
  /\ UNCHANGED <<dialect, acc, result, lastFinish, emitted, fed, input, clock, registration>>

NextMessage == MessageEvent \/ MessageConverted

SpecMessage == InitMessage /\ [][NextMessage]_vars

\* both conversions of the message are done
BothConverted ==
  /\ dialect = "message"
  /\ inflight.events = <<>>
  /\ IsSome(inflight.single)

IsTextBlock(block) == block.type = "text"
IsToolUse(block) == block.type = "tool_use"

\* C30 (as claimed): streaming and single-shot agree.  For any message of text
\* and tool_use blocks the final response of its event stream has the parts of
\* convertAnthropicResponse of the message, in the same order.
C30_StreamingAgrees ==
  BothConverted => PartsOf(Res.response) = PartsOf(Get(inflight.single))

\* the messages on which the two agree: at most one text block, which is not
\* empty and comes first, and tool_use blocks with a name
TextFirst(message) ==
  /\ Len(SelectSeq(message.content, IsTextBlock)) <= 1
  /\ \A k \in 1..Len(message.content) :
       /\ IsTextBlock(message.content[k]) => (k = 1 /\ message.content[k].text # <<>>)
       /\ IsToolUse(message.content[k]) => message.content[k].name # <<>>

\* C30 (amended): for any message made of at most one text block, not empty and
\* in front, followed by tool_use blocks with non-empty names, the final
\* response of its event stream has the parts of convertAnthropicResponse of
\* the message: same order, ids, names and args.
C30_StreamingAgreesTextFirst ==
  (BothConverted /\ TextFirst(input)) =>
    /\ IsFinal(Res)
    /\ PartsOf(Res.response) = PartsOf(Get(inflight.single))

\* a text block and a tool_use block with an input, both streamed in pieces
C30_Witness ==
  /\ BothConverted
  /\ TextFirst(input)
  /\ Len(input.content) = 2
  /\ input.content[1] = [type |-> "text", text |-> <<"a", "b">>]
  /\ input.content[2].input = [obj |-> <<"k">>]
  /\ PartsOf(Res.response) =
       <<TextPart(<<"a", "b">>), FunctionCallPart(<<"y">>, <<"g">>, [obj |-> <<"k">>])>>

====
